---- MODULE Spec2Model ----
(***************************************************************************)
(* Verification model of the quote acquisition pipeline of smart-quote:    *)
(* QuoteFetcher (app/core/quote_fetcher.py) with its disk cache, its rate  *)
(* limit and its fallback chain to the local pool (app/data/local_quotes); *)
(* of fetch_unique_quote (app/utils/cache_utils.py) over that fetcher; of  *)
(* process_quote_generation (app/utils/quote_processor.py) over both; of   *)
(* two overlapping calls on the fetcher shared by the sessions; of the     *)
(* favorites (app/features/favorites.py); and of the palette, color and    *)
(* layout functions of app/design.                                         *)
(*                                                                         *)
(* Time is counted in whole seconds.  A text is a sequence of one-letter   *)
(* strings, so that lower-casing and substring search are computed.        *)
(***************************************************************************)
EXTENDS Integers, Sequences, FiniteSets, TLC

(***************************************************************************)
(* Bounds of the model.                                                    *)
(***************************************************************************)
\* no call starts once the remote source has been called this many times
MaxRemote == 4
\* number of pauses between calls explored in one run
MaxPauses == 1
\* calls of fetch_unique_quote explored in one run
MaxUnique == 2
\* entries the palette memo may hold: no call adds an entry to a memo this big
MaxMemo == 2
\* longest quote whose font size is computed
MaxTextLength == 240
\* longest text handed to _wrap_text
MaxWrapChars == 6
\* add_favorite is not called on a list of this many favorites
MaxFavorites == 3
\* time.time() when the fetcher is constructed
Epoch == 1000

(***************************************************************************)
(* Constants of the program.                                               *)
(***************************************************************************)
MIN_REQUEST_DELAY == 2
FRESH_SECONDS == 300
MAX_CACHED == 50
MAX_ATTEMPTS == 3
RETRY_SLEEP == 1
\* fetch_unique_quote: max_attempts, and the size the recent-set is cut back to
MAX_UNIQUE_ATTEMPTS == 10
RECENT_CAPACITY == 30

(***************************************************************************)
(* Texts.                                                                  *)
(***************************************************************************)
UPPER == <<"A","B","C","D","E","F","G","H","I","J","K","L","M",
           "N","O","P","Q","R","S","T","U","V","W","X","Y","Z">>
LOWER == <<"a","b","c","d","e","f","g","h","i","j","k","l","m",
           "n","o","p","q","r","s","t","u","v","w","x","y","z">>

\* str.lower() on one character
LowerChar(c) ==
    IF \E i \in 1..Len(UPPER) : UPPER[i] = c
    THEN LOWER[CHOOSE i \in 1..Len(UPPER) : UPPER[i] = c]
    ELSE c

\* Lower leaving the text as it is
LowerNothing(s) == s

\* str.lower()
Lower(s) == [i \in 1..Len(s) |-> LowerChar(s[i])]

\* the Python test `k in s` on strings
Contains(s, k) ==
    \E i \in 1..(Len(s) - Len(k) + 1) : SubSeq(s, i, i + Len(k) - 1) = k

Range(s) == {s[i] : i \in 1..Len(s)}

(***************************************************************************)
(* The texts of the model: a content is a string, CHARS gives its letters. *)
(***************************************************************************)
MOTIVATION_TEXT == "You can do it and achieve success"
PLAIN_TEXT == "Be yourself"
WISDOM_TEXT == "Seek TRUTH"

\* the characters of the texts above
\* the texts the remote source answers with
REMOTE_TEXTS == {MOTIVATION_TEXT, PLAIN_TEXT}
\* the texts of the records found in the cache file at start-up
CACHED_TEXTS == {MOTIVATION_TEXT, PLAIN_TEXT, WISDOM_TEXT}
\* further contents, for _matches_theme called on its own: keywords in upper
\* case, inside longer words, cut in two, cut short; the empty content
PROBE_TEXTS ==
    {"LOVE wins", "Twin fears", "Be careful", "JoY", "", "Dr Eam",
     "INSPIRE", "wisdo m", "Achievement", "achiev"}
KNOWN_TEXTS == REMOTE_TEXTS \cup CACHED_TEXTS \cup PROBE_TEXTS
\* what the translation service answers with: a French sentence, a short one
TRANSLATED_TEXTS == {"Le succes est la cle", "Sois toi"}

\* the characters of the texts above
CHARS ==
    [s \in KNOWN_TEXTS \cup TRANSLATED_TEXTS |->
        CASE s = MOTIVATION_TEXT ->
               <<"Y","o","u"," ","c","a","n"," ","d","o"," ","i","t"," ","a","n","d"," ",
                 "a","c","h","i","e","v","e"," ","s","u","c","c","e","s","s">>
          [] s = PLAIN_TEXT -> <<"B","e"," ","y","o","u","r","s","e","l","f">>
          [] s = WISDOM_TEXT -> <<"S","e","e","k"," ","T","R","U","T","H">>
          [] s = "LOVE wins" -> <<"L","O","V","E"," ","w","i","n","s">>
          [] s = "Twin fears" -> <<"T","w","i","n"," ","f","e","a","r","s">>
          [] s = "Be careful" -> <<"B","e"," ","c","a","r","e","f","u","l">>
          [] s = "JoY" -> <<"J","o","Y">>
          [] s = "" -> <<>>
          [] s = "Dr Eam" -> <<"D","r"," ","E","a","m">>
          [] s = "INSPIRE" -> <<"I","N","S","P","I","R","E">>
          [] s = "wisdo m" -> <<"w","i","s","d","o"," ","m">>
          [] s = "Achievement" -> <<"A","c","h","i","e","v","e","m","e","n","t">>
          [] s = "achiev" -> <<"a","c","h","i","e","v">>
          [] s = "Le succes est la cle" ->
               <<"L","e"," ","s","u","c","c","e","s"," ","e","s","t"," ","l","a"," ",
                 "c","l","e">>
          [] s = "Sois toi" -> <<"S","o","i","s"," ","t","o","i">>]

(***************************************************************************)
(* THEME_KEYWORDS.  The key 'succès' is written "succes"; 'auto' maps to   *)
(* None, which `if not keywords` treats like the empty list.               *)
(***************************************************************************)
THEME_NAMES == {"motivation", "sagesse", "amour", "courage", "succes", "bonheur", "inspiration", "auto"}

THEME_KEYWORDS ==
    [t \in THEME_NAMES |->
        CASE
             t = "motivation" -> <<
           <<"m","o","t","i","v","a","t","e">>,
           <<"i","n","s","p","i","r","e">>,
           <<"s","u","c","c","e","s","s">>,
           <<"a","c","h","i","e","v","e">>,
           <<"g","o","a","l">>,
           <<"d","r","e","a","m">>,
           <<"a","c","t","i","o","n">>>>
          [] t = "sagesse" -> <<
           <<"w","i","s","d","o","m">>,
           <<"k","n","o","w","l","e","d","g","e">>,
           <<"l","e","a","r","n">>,
           <<"u","n","d","e","r","s","t","a","n","d">>,
           <<"p","h","i","l","o","s","o","p","h","y">>,
           <<"t","r","u","t","h">>>>
          [] t = "amour" -> <<
           <<"l","o","v","e">>,
           <<"h","e","a","r","t">>,
           <<"c","o","m","p","a","s","s","i","o","n">>,
           <<"k","i","n","d","n","e","s","s">>,
           <<"c","a","r","e">>,
           <<"a","f","f","e","c","t","i","o","n">>>>
          [] t = "courage" -> <<
           <<"c","o","u","r","a","g","e">>,
           <<"b","r","a","v","e">>,
           <<"f","e","a","r">>,
           <<"s","t","r","e","n","g","t","h">>,
           <<"p","e","r","s","e","v","e","r","a","n","c","e">>,
           <<"r","e","s","i","l","i","e","n","c","e">>>>
          [] t = "succes" -> <<
           <<"s","u","c","c","e","s","s">>,
           <<"a","c","h","i","e","v","e","m","e","n","t">>,
           <<"w","i","n">>,
           <<"v","i","c","t","o","r","y">>,
           <<"a","c","c","o","m","p","l","i","s","h">>,
           <<"e","x","c","e","l">>>>
          [] t = "bonheur" -> <<
           <<"h","a","p","p","i","n","e","s","s">>,
           <<"j","o","y">>,
           <<"s","m","i","l","e">>,
           <<"g","r","a","t","e","f","u","l">>,
           <<"p","o","s","i","t","i","v","e">>,
           <<"d","e","l","i","g","h","t">>>>
          [] t = "inspiration" -> <<
           <<"i","n","s","p","i","r","e">>,
           <<"c","r","e","a","t","i","v","e">>,
           <<"i","m","a","g","i","n","e">>,
           <<"d","r","e","a","m">>,
           <<"v","i","s","i","o","n">>,
           <<"p","a","s","s","i","o","n">>>>
          [] t = "auto" -> << >>]

\* QuoteFetcher._matches_theme, on the record's content
_matches_theme(quote, th) ==
    IF th = "auto" THEN TRUE
    ELSE LET keywords == IF th \in DOMAIN THEME_KEYWORDS
                         THEN THEME_KEYWORDS[th] ELSE << >>
         IN  IF keywords = << >> THEN TRUE
             ELSE LET content_lower == Lower(CHARS[quote.content])
                  IN  \E k \in 1..Len(keywords) :
                          Contains(content_lower, keywords[k])

(***************************************************************************)
(* Quote records.  Every record has the same fields: content, tags, theme  *)
(* ("" when the dict has no 'theme' key), id and source.  An id is a       *)
(* tagged number: tag "h" for the identifier the remote sends, "local" for *)
(* local_<hash>, "fallback" for the literal 'fallback'.                    *)
(***************************************************************************)
\* the themes the callers ask for
THEMES == {"auto", "motivation", "sagesse", "amour"}

\* Python's None for a quote
None == [content |-> "", tags |-> {}, theme |-> "",
         id |-> [tag |-> "none", n |-> 0], source |-> "none"]

\* the dict built by _fetch_single_quote from a reply {q, a, h}; the remote
\* identifies a text by h, written here as the length of the text
ZenQuote(q) == [content |-> q, tags |-> {}, theme |-> "",
                id |-> [tag |-> "h", n |-> Len(CHARS[q])], source |-> "zenquotes"]

\* QuoteFetcher._get_fallback_quote
_get_fallback_quote ==
    [content |-> "Le succes est la somme de petits efforts", tags |-> {"motivation"},
     theme |-> "", id |-> [tag |-> "fallback", n |-> 0], source |-> "fallback"]

(***************************************************************************)
(* The local pool FRENCH_QUOTES; of each content the first words are kept. *)
(***************************************************************************)
FRENCH_QUOTES == <<
    [content |-> "Le succes n est pas final",
     tags |-> {"motivation"}, theme |-> "motivation"],
    [content |-> "La seule facon de faire du",
     tags |-> {"succes","passion"}, theme |-> "succes"],
    [content |-> "Croyez que vous pouvez le faire",
     tags |-> {"motivation"}, theme |-> "motivation"],
    [content |-> "Le bonheur n est pas quelque",
     tags |-> {"bonheur"}, theme |-> "bonheur"],
    [content |-> "Dans un an vous regretterez de",
     tags |-> {"motivation"}, theme |-> "motivation"],
    [content |-> "La meilleure facon de predire l",
     tags |-> {"succes"}, theme |-> "succes"],
    [content |-> "Soyez vous meme tous les autres",
     tags |-> {"sagesse"}, theme |-> "sagesse"],
    [content |-> "L imagination est plus importante que",
     tags |-> {"sagesse"}, theme |-> "sagesse"],
    [content |-> "Le courage n est pas l",
     tags |-> {"courage"}, theme |-> "courage"],
    [content |-> "La vie est ce qui arrive",
     tags |-> {"sagesse"}, theme |-> "sagesse"],
    [content |-> "Vous manquez 100 des coups que",
     tags |-> {"motivation"}, theme |-> "motivation"],
    [content |-> "Ce qui ne nous tue pas",
     tags |-> {"courage"}, theme |-> "courage"],
    [content |-> "Soyez le changement que vous voulez",
     tags |-> {"inspiration"}, theme |-> "inspiration"],
    [content |-> "La plus grande gloire n est",
     tags |-> {"courage"}, theme |-> "courage"],
    [content |-> "Il n y a qu une",
     tags |-> {"motivation"}, theme |-> "motivation"],
    [content |-> "L avenir appartient a ceux qui",
     tags |-> {"inspiration"}, theme |-> "inspiration"],
    [content |-> "Le meilleur moment pour planter un",
     tags |-> {"motivation"}, theme |-> "motivation"],
    [content |-> "Ne comptez pas les jours faites",
     tags |-> {"motivation"}, theme |-> "motivation"],
    [content |-> "La seule limite a notre realisation",
     tags |-> {"motivation"}, theme |-> "motivation"],
    [content |-> "Agissez comme s il etait impossible",
     tags |-> {"motivation"}, theme |-> "motivation"] >>

\* LocalQuote without quote['source'] = 'local'
LocalQuoteNoSource(i) ==
    [content |-> FRENCH_QUOTES[i].content,
     tags |-> FRENCH_QUOTES[i].tags, theme |-> FRENCH_QUOTES[i].theme,
     id |-> [tag |-> "local", n |-> i], source |-> ""]

\* the record get_random_quote returns for pool entry i
LocalQuote(i) ==
    [content |-> FRENCH_QUOTES[i].content,
     tags |-> FRENCH_QUOTES[i].tags, theme |-> FRENCH_QUOTES[i].theme,
     id |-> [tag |-> "local", n |-> i], source |-> "local"]

\* get_random_quote without the filter on the theme
get_random_quote_unfiltered(th) == {LocalQuote(i) : i \in 1..Len(FRENCH_QUOTES)}

\* local_quotes.get_random_quote: the records random.choice may return
get_random_quote(th) ==
    LET all == 1..Len(FRENCH_QUOTES)
        filtered == {i \in all : \/ th \in FRENCH_QUOTES[i].tags
                                 \/ FRENCH_QUOTES[i].theme = th}
    IN  IF th # "auto" /\ filtered # {}
        THEN {LocalQuote(i) : i \in filtered}
        ELSE {LocalQuote(i) : i \in all}

(***************************************************************************)
(* _matches_theme is evaluated once per known text and theme.              *)
(***************************************************************************)
MatchTable ==
    {<<ct[1], ct[2], _matches_theme([content |-> ct[1]], ct[2])>> :
        ct \in KNOWN_TEXTS \X THEMES}

Matches(quote, th) == <<quote.content, th, TRUE>> \in MatchTable

(***************************************************************************)
(* The cache file data/quotes_cache.json and the directory it lives in.    *)
(*   state: "missing", "garbage" (not JSON), "nondict" (JSON that is     *)
(*          not an object) or "ok" ({quotes: [...], timestamp: n})         *)
(*   fs: "writable"; "unwritable" (open(path, 'w') fails); "no_dir" (the   *)
(*       directory data/ does not exist and cannot be created)             *)
(***************************************************************************)
File(state, qs, ts) == [state |-> state, quotes |-> qs, timestamp |-> ts]

\* QuoteFetcher._load_cache: the value of self.cache
_load_cache(f) ==
    IF f.state = "ok"
    THEN [isDict |-> TRUE, quotes |-> f.quotes, timestamp |-> f.timestamp]
    ELSE IF f.state = "nondict"
    THEN [isDict |-> FALSE, quotes |-> << >>, timestamp |-> 0]
    ELSE [isDict |-> TRUE, quotes |-> << >>, timestamp |-> 0]

\* QuoteFetcher._save_cache: does mkdir raise?
SaveRaises(mode) == mode = "no_dir"

\* _save_cache writing the timestamp the file had
_save_cache_old_stamp(mode, f, qs, ts) ==
    IF mode = "writable" THEN File("ok", qs, f.timestamp) ELSE f

\* QuoteFetcher._save_cache: the cache file after the call (a failed write is
\* swallowed)
_save_cache(mode, f, qs, ts) ==
    IF mode = "writable" THEN File("ok", qs, ts) ELSE f

(***************************************************************************)
(* Pieces of fetch_random_quote.                                           *)
(***************************************************************************)
\* CacheFresh whatever the age of the cache
CacheFreshAlways(t, ts) == TRUE

\* cache_age < 300
CacheFresh(t, ts) == t - ts < FRESH_SECONDS

\* RateLimitWait without the wait
RateLimitWaitNone(t, last) == 0

\* _wait_for_rate_limit: the seconds slept
RateLimitWait(t, last) ==
    IF t - last < MIN_REQUEST_DELAY THEN MIN_REQUEST_DELAY - (t - last) ELSE 0

\* _get_from_cache without the filter on the theme
_get_from_cache_unfiltered(qs, th) == Range(qs)

\* _get_from_cache: the records random.choice may return; {} stands for None
_get_from_cache(qs, th) ==
    IF qs = << >> THEN {}
    ELSE LET matching == {q \in Range(qs) : Matches(q, th)}
         IN  IF th # "auto" /\ th \in DOMAIN THEME_KEYWORDS /\ matching # {}
             THEN matching
             ELSE Range(qs)

\* Evict with the test written > 50
EvictLate(qs) == IF Len(qs) > MAX_CACHED THEN Tail(qs) ELSE qs

\* if len(self.cache['quotes']) >= 50: self.cache['quotes'].pop(0)
Evict(qs) == IF Len(qs) >= MAX_CACHED THEN Tail(qs) ELSE qs

\* ThemeSatisfied returning whatever was fetched
ThemeSatisfiedAny(quote, th) == TRUE

\* the two return statements after a successful fetch
ThemeSatisfied(quote, th) ==
    \/ th # "auto" /\ Matches(quote, th)
    \/ th = "auto"

\* SleepsAfter sleeping after the last attempt too
SleepsAfterEvery(i) == i < MAX_ATTEMPTS

\* if attempt < 2: time.sleep(1)
SleepsAfter(i) == i < MAX_ATTEMPTS - 1

\* _fetch_single_quote: the outcomes of one GET and what it returns for each
REPLIES == {"network_error", "http_error", "http_429", "empty_list", "malformed", "ok"}

_fetch_single_quote(reply, q) ==
    IF reply = "ok" THEN ZenQuote(q) ELSE None


(***************************************************************************)
(* ColorPalette (app/design/color_palette.py).  The strings handed to it   *)
(* are sequences of characters, so that lower(), the comparison with       *)
(* 'night' and the formatting of the memo key are computed.                *)
(***************************************************************************)
\* the values of the enum Emotion
JOY == <<"j","o","y">>
MOTIVATION == <<"m","o","t","i","v","a","t","i","o","n">>
WISDOM == <<"w","i","s","d","o","m">>
LOVE == <<"l","o","v","e">>
SADNESS == <<"s","a","d","n","e","s","s">>
ANGER == <<"a","n","g","e","r">>
FEAR == <<"f","e","a","r">>
POSITIVE == <<"p","o","s","i","t","i","v","e">>
NEUTRAL == <<"n","e","u","t","r","a","l">>
NEGATIVE == <<"n","e","g","a","t","i","v","e">>
EMOTION_VALUES == {JOY, MOTIVATION, WISDOM, LOVE, SADNESS, ANGER, FEAR, POSITIVE, NEUTRAL, NEGATIVE}

\* the values of the enum TimeOfDay
MORNING == <<"m","o","r","n","i","n","g">>
AFTERNOON == <<"a","f","t","e","r","n","o","o","n">>
EVENING == <<"e","v","e","n","i","n","g">>
NIGHT == <<"n","i","g","h","t">>
TIME_VALUES == {MORNING, AFTERNOON, EVENING, NIGHT}

EMOTION_SCHEMES ==
    [e \in EMOTION_VALUES |->
        CASE e = JOY ->
               <<[background |-> "#FFD93D", text |-> "#2C2C2C", accent |-> "#FF6B6B", name |-> "Sunshine"],
                 [background |-> "#F9A825", text |-> "#FFFFFF", accent |-> "#EF5350", name |-> "Golden Hour"],
                 [background |-> "#FFC107", text |-> "#1A1A1A", accent |-> "#FF7043", name |-> "Radiant"]>>
          [] e = MOTIVATION ->
               <<[background |-> "#E63946", text |-> "#FFFFFF", accent |-> "#457B9D", name |-> "Power"],
                 [background |-> "#D62828", text |-> "#F8F9FA", accent |-> "#023E8A", name |-> "Drive"],
                 [background |-> "#C9184A", text |-> "#FFFFFF", accent |-> "#0077B6", name |-> "Ambition"]>>
          [] e = WISDOM ->
               <<[background |-> "#2C3E50", text |-> "#ECF0F1", accent |-> "#95A5A6", name |-> "Sage"],
                 [background |-> "#34495E", text |-> "#FDFEFE", accent |-> "#7F8C8D", name |-> "Philosopher"],
                 [background |-> "#283747", text |-> "#EAECEE", accent |-> "#85929E", name |-> "Scholar"]>>
          [] e = LOVE ->
               <<[background |-> "#E91E63", text |-> "#FFFFFF", accent |-> "#F06292", name |-> "Passion"],
                 [background |-> "#AD1457", text |-> "#FAFAFA", accent |-> "#EC407A", name |-> "Romance"],
                 [background |-> "#C2185B", text |-> "#FFFFFF", accent |-> "#F48FB1", name |-> "Affection"]>>
          [] e = SADNESS ->
               <<[background |-> "#546E7A", text |-> "#ECEFF1", accent |-> "#90A4AE", name |-> "Melancholy"],
                 [background |-> "#455A64", text |-> "#F5F5F5", accent |-> "#78909C", name |-> "Contemplation"],
                 [background |-> "#37474F", text |-> "#FAFAFA", accent |-> "#607D8B", name |-> "Reflection"]>>
          [] e = ANGER ->
               <<[background |-> "#B71C1C", text |-> "#FFFFFF", accent |-> "#E53935", name |-> "Fury"],
                 [background |-> "#C62828", text |-> "#FAFAFA", accent |-> "#EF5350", name |-> "Rage"],
                 [background |-> "#D32F2F", text |-> "#F5F5F5", accent |-> "#F44336", name |-> "Intensity"]>>
          [] e = FEAR ->
               <<[background |-> "#263238", text |-> "#ECEFF1", accent |-> "#546E7A", name |-> "Shadow"],
                 [background |-> "#37474F", text |-> "#E0E0E0", accent |-> "#607D8B", name |-> "Unease"],
                 [background |-> "#455A64", text |-> "#CFD8DC", accent |-> "#78909C", name |-> "Anxiety"]>>
          [] e = POSITIVE ->
               <<[background |-> "#00BCD4", text |-> "#FFFFFF", accent |-> "#0097A7", name |-> "Optimism"],
                 [background |-> "#00ACC1", text |-> "#FAFAFA", accent |-> "#00838F", name |-> "Hope"],
                 [background |-> "#0097A7", text |-> "#F5F5F5", accent |-> "#006064", name |-> "Brightness"]>>
          [] e = NEUTRAL ->
               <<[background |-> "#607D8B", text |-> "#FFFFFF", accent |-> "#455A64", name |-> "Balance"],
                 [background |-> "#78909C", text |-> "#FAFAFA", accent |-> "#546E7A", name |-> "Equilibrium"],
                 [background |-> "#90A4AE", text |-> "#F5F5F5", accent |-> "#37474F", name |-> "Calm"]>>
          [] e = NEGATIVE ->
               <<[background |-> "#5D4037", text |-> "#EFEBE9", accent |-> "#8D6E63", name |-> "Somber"],
                 [background |-> "#4E342E", text |-> "#F5F5F5", accent |-> "#795548", name |-> "Grave"],
                 [background |-> "#3E2723", text |-> "#FAFAFA", accent |-> "#6D4C41", name |-> "Heavy"]>>]

TIME_SCHEMES ==
    [p \in TIME_VALUES |->
        CASE p = MORNING ->
               <<[background |-> "#FFB74D", text |-> "#FFFFFF", accent |-> "#FF9800", name |-> "Sunrise"],
                 [background |-> "#FFA726", text |-> "#FAFAFA", accent |-> "#FB8C00", name |-> "Dawn"],
                 [background |-> "#FF9800", text |-> "#F5F5F5", accent |-> "#F57C00", name |-> "Morning Light"]>>
          [] p = AFTERNOON ->
               <<[background |-> "#42A5F5", text |-> "#FFFFFF", accent |-> "#1E88E5", name |-> "Blue Sky"],
                 [background |-> "#2196F3", text |-> "#FAFAFA", accent |-> "#1976D2", name |-> "Clear Day"],
                 [background |-> "#1E88E5", text |-> "#F5F5F5", accent |-> "#1565C0", name |-> "Daylight"]>>
          [] p = EVENING ->
               <<[background |-> "#7E57C2", text |-> "#FFFFFF", accent |-> "#5E35B1", name |-> "Dusk"],
                 [background |-> "#673AB7", text |-> "#FAFAFA", accent |-> "#512DA8", name |-> "Twilight"],
                 [background |-> "#5E35B1", text |-> "#F5F5F5", accent |-> "#4527A0", name |-> "Sunset"]>>
          [] p = NIGHT ->
               <<[background |-> "#1A237E", text |-> "#E8EAF6", accent |-> "#283593", name |-> "Midnight"],
                 [background |-> "#0D47A1", text |-> "#E3F2FD", accent |-> "#1565C0", name |-> "Deep Night"],
                 [background |-> "#01579B", text |-> "#E1F5FE", accent |-> "#0277BD", name |-> "Starry"]>>]

DARK_SCHEMES ==
    <<[background |-> "#0F172A", text |-> "#F1F5F9", accent |-> "#06B6D4", name |-> "Slate Dark"],
      [background |-> "#1E293B", text |-> "#E2E8F0", accent |-> "#8B5CF6", name |-> "Navy Dark"],
      [background |-> "#18181B", text |-> "#FAFAFA", accent |-> "#A855F7", name |-> "Zinc Dark"],
      [background |-> "#0A0A0A", text |-> "#F5F5F5", accent |-> "#EC4899", name |-> "Black Dark"]>>

\* ColorScheme.to_list
to_list(scheme) == <<scheme.background, scheme.text, scheme.accent>>

\* Emotion(emotion.lower()), NEUTRAL on ValueError
EmotionOf(emotion) ==
    IF Lower(emotion) \in EMOTION_VALUES THEN Lower(emotion) ELSE NEUTRAL

\* get_random_scheme_for_emotion: the schemes random.choice may return
get_random_scheme_for_emotion(emotion) == Range(EMOTION_SCHEMES[EmotionOf(emotion)])

\* get_scheme_for_time: TimeOfDay(period.lower()), AFTERNOON on ValueError
get_scheme_for_time(period) ==
    Range(TIME_SCHEMES[IF Lower(period) \in TIME_VALUES THEN Lower(period)
                       ELSE AFTERNOON])

\* get_dark_scheme
get_dark_scheme == Range(DARK_SCHEMES)

\* an optional string: Python's None, or the string s
NoString == [none |-> TRUE, s |-> << >>]
Str(s) == [none |-> FALSE, s |-> s]

\* f"{x}" for an optional string and for a bool
FormatOptional(x) == IF x.none THEN <<"N","o","n","e">> ELSE x.s
FormatBool(b) == IF b THEN <<"T","r","u","e">> ELSE <<"F","a","l","s","e">>

\* cache_key = f"{emotion}_{time_period}_{prefer_dark}"
CacheKey(emotion, time_period, prefer_dark) ==
    emotion \o <<"_">> \o FormatOptional(time_period) \o <<"_">> \o FormatBool(prefer_dark)

\* SchemePool looking at the period before the dark mode
SchemePoolNightFirst(emotion, time_period, prefer_dark) ==
    IF time_period = Str(NIGHT) THEN get_scheme_for_time(NIGHT)
    ELSE IF prefer_dark THEN get_dark_scheme
    ELSE get_random_scheme_for_emotion(emotion)

\* lines 245-252: the pool the scheme is drawn from
SchemePool(emotion, time_period, prefer_dark) ==
    IF prefer_dark THEN get_dark_scheme
    ELSE IF time_period = Str(NIGHT) THEN get_scheme_for_time(NIGHT)
    ELSE get_random_scheme_for_emotion(emotion)

(***************************************************************************)
(* Colors: '#RRGGBB' as a sequence of characters.                          *)
(***************************************************************************)
LOWER_HEX == <<"0","1","2","3","4","5","6","7","8","9","a","b","c","d","e","f">>
UPPER_HEX == <<"0","1","2","3","4","5","6","7","8","9","A","B","C","D","E","F">>

\* int(d, 16) for one hexadecimal digit
HexDigit(d) ==
    IF \E i \in 1..16 : LOWER_HEX[i] = d
    THEN (CHOOSE i \in 1..16 : LOWER_HEX[i] = d) - 1
    ELSE (CHOOSE i \in 1..16 : UPPER_HEX[i] = d) - 1

\* hex_color.lstrip('#')
RECURSIVE LStripHash(_)
LStripHash(s) == IF s # << >> /\ Head(s) = "#" THEN LStripHash(Tail(s)) ELSE s

\* ColorPalette.hex_to_rgb
hex_to_rgb(hex_color) ==
    LET h == LStripHash(hex_color)
    IN  [k \in 1..3 |-> 16 * HexDigit(h[2 * k - 1]) + HexDigit(h[2 * k])]

\* '{:02x}' for a channel value 0..255
FormatChannel(v) == <<LOWER_HEX[(v \div 16) + 1], LOWER_HEX[(v % 16) + 1]>>

\* ColorPalette.rgb_to_hex
rgb_to_hex(rgb) ==
    <<"#">> \o FormatChannel(rgb[1]) \o FormatChannel(rgb[2]) \o FormatChannel(rgb[3])

\* ColorPalette.calculate_brightness, in thousandths: 0.299 R + 0.587 G + 0.114 B.
\* For each of the 2^24 colors the float expression of the code is above 128
\* exactly when this number is above 128000.
calculate_brightness(hex_color) ==
    LET rgb == hex_to_rgb(hex_color)
    IN  rgb[1] * 299 + rgb[2] * 587 + rgb[3] * 114

BRIGHTNESS_THRESHOLD == 128000

NEAR_BLACK == <<"#","1","A","1","A","1","A">>
NEAR_WHITE == <<"#","F","A","F","A","F","A">>

\* ensure_contrast with the test written >= 128
ensure_contrast_at_threshold(bg_color, text_color) ==
    IF calculate_brightness(bg_color) >= BRIGHTNESS_THRESHOLD
    THEN NEAR_BLACK ELSE NEAR_WHITE

\* ColorPalette.ensure_contrast
ensure_contrast(bg_color, text_color) ==
    IF calculate_brightness(bg_color) > BRIGHTNESS_THRESHOLD
    THEN NEAR_BLACK ELSE NEAR_WHITE

(***************************************************************************)
(* ImageGenerator (app/design/image_generator.py): font size and word wrap. *)
(***************************************************************************)
\* FONT_SIZES['quote']
FONT_SMALL == 48
FONT_MEDIUM == 42
FONT_LARGE == 36
FONT_XLARGE == 32

\* PADDING_BY_STYLE, and the styles create_image is asked for
STYLES == {"minimal", "moderne", "elegant"}

\* _calculate_font_size with the first test written <= 60
_calculate_font_size_inclusive(text_length) ==
    IF text_length <= 60 THEN FONT_SMALL
    ELSE IF text_length < 120 THEN FONT_MEDIUM
    ELSE IF text_length < 180 THEN FONT_LARGE
    ELSE FONT_XLARGE

\* ImageGenerator._calculate_font_size
_calculate_font_size(text_length) ==
    IF text_length < 60 THEN FONT_SMALL
    ELSE IF text_length < 120 THEN FONT_MEDIUM
    ELSE IF text_length < 180 THEN FONT_LARGE
    ELSE FONT_XLARGE

\* str.split(): the maximal runs of characters that are not spaces, from
\* position i on, cur being the run read so far
RECURSIVE SplitFrom(_, _, _)
SplitFrom(text, i, cur) ==
    IF i > Len(text)
    THEN IF cur = << >> THEN << >> ELSE <<cur>>
    ELSE IF text[i] = " "
    THEN IF cur = << >> THEN SplitFrom(text, i + 1, << >>)
         ELSE <<cur>> \o SplitFrom(text, i + 1, << >>)
    ELSE SplitFrom(text, i + 1, Append(cur, text[i]))

Split(text) == SplitFrom(text, 1, << >>)

\* ' '.join(words)
RECURSIVE Join(_)
Join(words) ==
    IF words = << >> THEN << >>
    ELSE IF Len(words) = 1 THEN words[1]
    ELSE words[1] \o <<" ">> \o Join(Tail(words))

\* font.getbbox(line): bbox[2] - bbox[0], the widths of the characters added
\* up; a font is the width of its narrow character
RECURSIVE BBoxWidth(_, _)
BBoxWidth(font, line) ==
    IF line = << >> THEN 0
    ELSE (IF Head(line) = "M" THEN 3 * font ELSE font) + BBoxWidth(font, Tail(line))

\* Fits whatever the width
FitsAlways(width, max_width) == TRUE

\* Fits refusing a line that fills the width exactly
FitsBelow(width, max_width) == width < max_width

\* if width <= max_width
Fits(width, max_width) == width <= max_width

\* FlushLast forgetting the line being filled
FlushLastNever(lines, current_line) == lines

\* lines 155-156: if current_line: lines.append(' '.join(current_line))
FlushLast(lines, current_line) ==
    IF current_line # << >> THEN Append(lines, Join(current_line)) ELSE lines

\* lines 143-156: the loop over the words from word k on, and what follows it
RECURSIVE WrapLoop(_, _, _, _, _, _)
WrapLoop(words, k, lines, current_line, font, max_width) ==
    IF k > Len(words) THEN FlushLast(lines, current_line)
    ELSE LET word == words[k]
             test_line == Join(Append(current_line, word))
             width == BBoxWidth(font, test_line)
         IN  IF Fits(width, max_width)
             THEN WrapLoop(words, k + 1, lines, Append(current_line, word),
                           font, max_width)
             ELSE WrapLoop(words, k + 1,
                           IF current_line # << >>
                           THEN Append(lines, Join(current_line)) ELSE lines,
                           <<word>>, font, max_width)

\* ImageGenerator._wrap_text
_wrap_text(text, font, max_width) ==
    LET lines == WrapLoop(Split(text), 1, << >>, << >>, font, max_width)
    IN  IF lines # << >> THEN lines ELSE <<text>>

(***************************************************************************)
(* State.                                                                  *)
(***************************************************************************)
VARIABLES
    now,                \* time.time()
    cacheIsDict,        \* self.cache is a dict
    quotes,             \* self.cache['quotes']
    timestamp,          \* self.cache['timestamp']
    last_request_time,  \* self.last_request_time
    file,               \* the cache file
    fs,                 \* state of the directory of the cache file
    LOCAL_OK,           \* the local pool was imported
    pc,                 \* position in fetch_random_quote, "idle" between calls
    theme,              \* argument of the call
    attempt,            \* loop variable of the retry loop
    result,             \* outcome of the latest call
    rested,             \* time has passed since the latest call ended
    pauses,             \* pauses between calls so far
    remoteTotal,        \* remote calls issued so far
    remoteCalls,        \* remote calls issued by the current call
    sleepLog,           \* the sleeps between attempts of the current call
    rateWaits,          \* entries of _wait_for_rate_limit in the current call
    fetched,            \* what the remote sent during the current call: the record,
                        \* the time and the number of the attempt
    entryAge,           \* age of the cache when the latest call started
    entryLen,           \* records in the cache when the latest call started
    lastRemoteAt,       \* time of the most recent remote call, -1 if none
    firstGap,           \* time between the first remote call of the current call
                        \* and the most recent remote call before it, -1 if none
    inserted,           \* every record ever put in the cache, oldest first
    lastSave,           \* outcome of the latest _save_cache, "none" before
    match_call,         \* a call of _matches_theme on its own: content, theme, result
    quote_cache,        \* st.session_state.quote_cache: hashes of the recent contents
    unique_call,        \* the call of fetch_unique_quote: position, theme, attempt,
                        \* what it returned and how
    unique_log,         \* of the current call of fetch_unique_quote: the recent-set
                        \* when it started, its fetches, what it skipped
    recent_order,       \* the hashes added to the recent-set since it was last
                        \* empty, in the order of their addition
    _cache,             \* ColorPalette._cache: memo key -> [background, text, accent]
    palette_call,       \* the latest call of get_intelligent_palette
    palette_first,      \* what the first call with each triple returned
    color_call,         \* a call of ensure_contrast or of the round trip
                        \* rgb_to_hex(hex_to_rgb(c)): arguments and result
    font_call,          \* create_image choosing the font size of a quote
    wrap_call,          \* a call of _wrap_text, and of _wrap_text on its result
    favorites,          \* st.session_state.favorites
    favorites_file,     \* the file data/favorites.json
    fav_call,           \* the latest call of add_favorite or remove_favorite
    threads,            \* the calls of fetch_random_quote that overlap on the one
                        \* fetcher: of each its position and its local variables
    process_call        \* the latest call of process_quote_generation

fetcher == <<cacheIsDict, quotes, timestamp, last_request_time>>
env == <<file, fs, LOCAL_OK>>
call == <<pc, theme, attempt, result, rested, pauses>>
history == <<remoteTotal, remoteCalls, sleepLog, rateWaits, fetched, entryAge,
             entryLen, lastRemoteAt,
             firstGap, inserted, lastSave>>
match_vars == <<match_call>>
unique_vars == <<quote_cache, unique_call, unique_log, recent_order>>
palette_vars == <<_cache, palette_call, palette_first>>
color_vars == <<color_call>>
layout_vars == <<font_call, wrap_call>>
design_vars == <<palette_vars, color_vars, layout_vars>>
favorites_vars == <<favorites, favorites_file, fav_call>>
session_vars == <<favorites_vars, threads, process_call>>
tools == <<match_vars, unique_vars, design_vars, session_vars>>
fetch_vars == <<now, fetcher, env, call, history>>
vars == <<fetch_vars, tools>>

NoResult == [kind |-> "none", quote |-> None, line |-> 0]
Returned(q, line) == [kind |-> "return", quote |-> q, line |-> line]
Raised(line) == [kind |-> "raise", quote |-> None, line |-> line]

(***************************************************************************)
(* Initial states: a fetcher just constructed over some cache file.        *)
(***************************************************************************)
\* a cache file of len records written by an earlier run
StoredQuotes(len, first, rest) ==
    [i \in 1..len |-> ZenQuote(IF i = 1 THEN first ELSE rest)]

INIT_AGES == {FRESH_SECONDS - 1, FRESH_SECONDS}
SMALL_CACHES == {StoredQuotes(2, p[1], p[2]) :
                    p \in {<<PLAIN_TEXT, PLAIN_TEXT>>, <<MOTIVATION_TEXT, PLAIN_TEXT>>,
                           <<PLAIN_TEXT, WISDOM_TEXT>>}}
LARGE_CACHES == {StoredQuotes(len, MOTIVATION_TEXT, PLAIN_TEXT) :
                    len \in {MAX_CACHED - 1, MAX_CACHED}}

INIT_FILES ==
    {File("missing", << >>, 0), File("garbage", << >>, 0), File("nondict", << >>, 0)}
    \cup {File("ok", qs, Epoch - age) :
             qs \in SMALL_CACHES \cup LARGE_CACHES, age \in INIT_AGES}

QuoteFetcherInit ==
    /\ now = Epoch
    /\ file \in INIT_FILES
    /\ fs \in {"writable", "unwritable", "no_dir"}
    /\ fs = "no_dir" => file.state = "missing"
    /\ LOCAL_OK \in BOOLEAN
    \* a cache that starts with records never empties: the pool is out of reach
    /\ file.state = "ok" => LOCAL_OK
    /\ cacheIsDict = _load_cache(file).isDict
    /\ quotes = _load_cache(file).quotes
    /\ timestamp = _load_cache(file).timestamp
    /\ last_request_time = 0
    /\ pc = "idle"
    /\ theme = "auto"
    /\ attempt = 0
    /\ result = NoResult
    /\ remoteTotal = 0
    /\ rested = FALSE
    /\ pauses = 0
    /\ remoteCalls = 0
    /\ sleepLog = << >>
    /\ rateWaits = 0
    /\ fetched = << >>
    /\ entryAge = 0
    /\ entryLen = 0
    /\ lastRemoteAt = -1
    /\ firstGap = -1
    /\ inserted = quotes
    /\ lastSave = "none"

\* no call of _matches_theme on its own
MatchIdle == match_call = [content |-> "", theme |-> "auto", done |-> FALSE, out |-> FALSE]

\* an empty recent-set and no call of fetch_unique_quote
NoUniqueCall == [pc |-> "idle", theme |-> "auto", attempt |-> 0, calls |-> 0,
                 how |-> "none", out |-> None]
NoUniqueLog == [start |-> {}, fetches |-> 0, unseenSkipped |-> FALSE,
                cleared |-> FALSE, last |-> None, remoteBefore |-> 0]

UniqueIdle ==
    /\ quote_cache = {}
    /\ recent_order = << >>
    /\ unique_call = NoUniqueCall
    /\ unique_log = NoUniqueLog

\* a ColorPalette just constructed
NoPaletteCall == [emotion |-> << >>, time_period |-> NoString, prefer_dark |-> FALSE,
                  done |-> FALSE, hit |-> FALSE, repeat |-> FALSE, out |-> << >>]

PaletteIdle ==
    /\ _cache = << >>
    /\ palette_call = NoPaletteCall
    /\ palette_first = << >>

\* no call on a color
NoColorCall == [op |-> "none", color |-> NEAR_BLACK, text |-> NEAR_BLACK, out |-> << >>]

ColorIdle == color_call = NoColorCall

\* no image asked for
NoFontCall == [text_length |-> 0, style |-> "minimal", done |-> FALSE, font_size |-> 0]
NoWrapCall == [text |-> << >>, font |-> 1, max_width |-> 0, done |-> FALSE,
               rewrapped |-> FALSE, lines |-> << >>, again |-> << >>]

LayoutIdle ==
    /\ font_call = NoFontCall
    /\ wrap_call = NoWrapCall

DesignIdle == PaletteIdle /\ ColorIdle /\ LayoutIdle

\* no favorite yet, no file of favorites
NoFavoritesFile == [state |-> "missing", favorites |-> << >>]
NoFavCall == [op |-> "none", content |-> "", id |-> 0, out |-> FALSE, removed |-> 0]

FavoritesIdle ==
    /\ favorites = << >>
    /\ favorites_file = NoFavoritesFile
    /\ fav_call = NoFavCall

\* the two sessions whose calls may overlap; none has called yet
THREADS == {1, 2}

NoThread == [pc |-> "idle", theme |-> "auto", attempt |-> 0, read |-> -1, wake |-> 0,
             quote |-> None, issuedAt |-> -1, out |-> NoResult]

ThreadsIdle == threads = [t \in THREADS |-> NoThread]

\* process_quote_generation not called
NoProcessCall == [of |-> 0, language |-> "", out |-> FALSE, quote |-> None]

ProcessIdle == process_call = NoProcessCall

SessionIdle == FavoritesIdle /\ ThreadsIdle /\ ProcessIdle

ToolsIdle == MatchIdle /\ UniqueIdle /\ DesignIdle /\ SessionIdle

Init == QuoteFetcherInit /\ ToolsIdle

(***************************************************************************)
(* fetch_random_quote, step by step.                                       *)
(***************************************************************************)
\* the call ends: it returns or raises
Finish(r) ==
    /\ pc' = "idle"
    /\ result' = r
    /\ rested' = FALSE

\* lines 95-102: the call starts and looks at the cache
FetchBegin(th) ==
    /\ pc = "idle"
    /\ remoteTotal < MaxRemote
    /\ theme' = th
    /\ attempt' = 0
    /\ remoteCalls' = 0
    /\ sleepLog' = << >>
    /\ rateWaits' = 0
    /\ fetched' = << >>
    /\ entryAge' = now - timestamp
    /\ entryLen' = Len(quotes)
    /\ firstGap' = -1
    /\ IF ~cacheIsDict
       THEN Finish(Raised(98))
       ELSE IF CacheFresh(now, timestamp) /\ _get_from_cache(quotes, th) # {}
       THEN \E cached \in _get_from_cache(quotes, th) : Finish(Returned(cached, 102))
       ELSE /\ pc' = "rate_limit"
            /\ result' = NoResult
            /\ rested' = FALSE
    /\ UNCHANGED <<now, fetcher, env, pauses, remoteTotal, lastRemoteAt, inserted,
                   lastSave>>

\* fetch_random_quote called by itself
FetchStart(th) == FetchBegin(th) /\ UNCHANGED tools

\* line 105: _wait_for_rate_limit
WaitForRateLimit ==
    /\ pc = "rate_limit"
    /\ now' = now + RateLimitWait(now, last_request_time)
    /\ last_request_time' = now'
    /\ rateWaits' = rateWaits + 1
    /\ pc' = "attempt"
    /\ UNCHANGED <<cacheIsDict, quotes, timestamp, env, theme, attempt, result, rested,
                   pauses, remoteTotal, remoteCalls, sleepLog, fetched, entryAge,
                   entryLen, lastRemoteAt, firstGap, inserted, lastSave, tools>>

\* for attempt in range(3): where the loop goes after iteration i
LoopNext(i) == IF i + 1 < MAX_ATTEMPTS THEN "attempt" ELSE "fallback"

\* lines 130-132 reached: the attempt gave nothing to return
NextAttempt ==
    /\ pc' = IF SleepsAfter(attempt) THEN "sleep" ELSE LoopNext(attempt)
    /\ attempt' = IF SleepsAfter(attempt) THEN attempt ELSE attempt + 1
    /\ UNCHANGED <<result, rested>>

\* lines 108-128: one remote call and what follows it
Attempt(reply, q) ==
    /\ pc = "attempt"
    /\ LET quote == _fetch_single_quote(reply, q)
       IN  /\ remoteTotal' = remoteTotal + 1
           /\ remoteCalls' = remoteCalls + 1
           /\ lastRemoteAt' = now
           /\ firstGap' = IF remoteCalls = 0 /\ lastRemoteAt # -1
                          THEN now - lastRemoteAt ELSE firstGap
           /\ IF quote = None
              THEN /\ NextAttempt
                   /\ UNCHANGED <<quotes, timestamp, file, fetched,
                                  inserted, lastSave>>
              ELSE /\ fetched' = Append(fetched, [quote |-> quote, at |-> now,
                                                 n |-> remoteCalls + 1])
                   /\ quotes' = Append(Evict(quotes), quote)
                   /\ inserted' = Append(inserted, quote)
                   /\ timestamp' = now
                   /\ IF SaveRaises(fs)
                      THEN /\ Finish(Raised(55))
                           /\ lastSave' = "raised"
                           /\ UNCHANGED <<file, attempt>>
                      ELSE /\ file' = _save_cache(fs, file, quotes', timestamp')
                           /\ lastSave' = IF fs = "writable" THEN "written" ELSE "failed"
                           /\ IF ThemeSatisfied(quote, theme)
                              THEN /\ Finish(Returned(quote, IF theme = "auto"
                                                              THEN 128 ELSE 126))
                                   /\ UNCHANGED attempt
                              ELSE NextAttempt
    /\ UNCHANGED <<now, cacheIsDict, last_request_time, fs, LOCAL_OK, theme, pauses,
                   sleepLog, rateWaits, entryAge, entryLen, tools>>

\* lines 131-132: time.sleep(1), then the next iteration
Sleep ==
    /\ pc = "sleep"
    /\ now' = now + RETRY_SLEEP
    /\ sleepLog' = Append(sleepLog, [after |-> attempt + 1, secs |-> RETRY_SLEEP])
    /\ attempt' = attempt + 1
    /\ pc' = LoopNext(attempt)
    /\ UNCHANGED <<fetcher, env, theme, result, rested, pauses, remoteTotal,
                   remoteCalls, rateWaits, fetched, entryAge, entryLen, lastRemoteAt,
                   firstGap, inserted, lastSave, tools>>

\* lines 134-145: the cache whatever its age, then the local pool, then the fallback
Fallback ==
    /\ pc = "fallback"
    /\ IF _get_from_cache(quotes, theme) # {}
       THEN \E cached \in _get_from_cache(quotes, theme) : Finish(Returned(cached, 138))
       ELSE IF LOCAL_OK
       THEN \E local \in get_random_quote(theme) : Finish(Returned(local, 143))
       ELSE Finish(Returned(_get_fallback_quote, 145))
    /\ UNCHANGED <<now, fetcher, env, theme, attempt, pauses, history, tools>>

(***************************************************************************)
(* Between two calls time passes.                                          *)
(***************************************************************************)
DELAYS == {1, FRESH_SECONDS}

Elapse(d) ==
    /\ pc = "idle"
    /\ result.kind # "none"
    /\ remoteTotal < MaxRemote
    /\ pauses < MaxPauses
    /\ pauses' = pauses + 1
    /\ ~rested
    /\ rested' = TRUE
    /\ now' = now + d
    /\ UNCHANGED <<fetcher, env, pc, theme, attempt, result, history, tools>>

Next ==
    \/ \E th \in THEMES : FetchStart(th)
    \/ WaitForRateLimit
    \/ \E reply \in REPLIES :
          \E q \in (IF reply = "ok" THEN REMOTE_TEXTS ELSE {""}) : Attempt(reply, q)
    \/ Sleep
    \/ Fallback
    \/ \E d \in DELAYS : Elapse(d)

Spec == Init /\ [][Next]_vars

(***************************************************************************)
(* _matches_theme called on its own, on any content and any theme.         *)
(***************************************************************************)
\* a fetcher built without a cache file, on which no call is made
FetcherIdle ==
    /\ QuoteFetcherInit
    /\ file = File("missing", << >>, 0)
    /\ fs = "writable"
    /\ LOCAL_OK

\* the themes of the table and one that is not a key of THEME_KEYWORDS
MATCH_THEMES == THEME_NAMES \cup {"humour"}

InitMatch ==
    /\ FetcherIdle
    /\ UniqueIdle
    /\ DesignIdle
    /\ SessionIdle
    /\ match_call \in {[content |-> c, theme |-> t, done |-> FALSE, out |-> FALSE] :
                          c \in KNOWN_TEXTS, t \in MATCH_THEMES}

MatchesTheme ==
    /\ ~match_call.done
    /\ match_call' = [match_call EXCEPT
                         !.done = TRUE,
                         !.out = _matches_theme([content |-> match_call.content],
                                                match_call.theme)]
    /\ UNCHANGED <<fetch_vars, unique_vars, design_vars, session_vars>>

NextMatch == MatchesTheme

SpecMatch == InitMatch /\ [][NextMatch]_vars

(***************************************************************************)
(* fetch_unique_quote (app/utils/cache_utils.py) over the fetcher: every   *)
(* fetch it makes is a call of fetch_random_quote on the fetcher above.    *)
(***************************************************************************)
\* get_quote_hash: the MD5 digest of the content, one digest per content
get_quote_hash(content) == [md5 |-> content]

\* AlreadySeen finding nothing in the recent-set
AlreadySeenNever(h, recent) == FALSE

\* the negation of `quote_hash not in st.session_state.quote_cache`
AlreadySeen(h, recent) == h \in recent

\* lines 42-49: the recent-sets the addition of h may leave; list(set) lists the
\* hashes in an order the program does not choose, and pop(0) drops the first
AddRecent(recent, h) ==
    LET added == recent \cup {h}
    IN  IF Cardinality(added) > RECENT_CAPACITY
        THEN {added \ {x} : x \in added}
        ELSE {added}

\* a recent-set filled by earlier calls of the session
EARLIER_HASHES ==
    {get_quote_hash(FRENCH_QUOTES[i].content) : i \in 1..Len(FRENCH_QUOTES)}
    \cup {get_quote_hash(t) : t \in PROBE_TEXTS}

\* the order in which those calls added them: the pool entries, then the others
PROBE_ORDER ==
    <<"LOVE wins", "Twin fears", "Be careful", "JoY", "", "Dr Eam", "INSPIRE",
      "wisdo m", "Achievement", "achiev">>

EARLIER_ORDER ==
    [i \in 1..Len(FRENCH_QUOTES) |-> get_quote_hash(FRENCH_QUOTES[i].content)]
    \o [i \in 1..Len(PROBE_ORDER) |-> get_quote_hash(PROBE_ORDER[i])]

UNIQUE_THEMES == {"auto", "motivation"}

InitUnique ==
    /\ QuoteFetcherInit
    /\ LOCAL_OK
    /\ file.state \in {"missing", "nondict", "ok"}
    /\ file.state = "ok" => /\ Len(file.quotes) = 2
                            /\ CacheFresh(Epoch, file.timestamp)
    /\ MatchIdle
    /\ SessionIdle
    /\ DesignIdle
    /\ quote_cache \in {{}, EARLIER_HASHES}
    /\ recent_order = IF quote_cache = {} THEN << >> ELSE EARLIER_ORDER
    /\ unique_call = NoUniqueCall
    /\ unique_log = NoUniqueLog

\* line 30: fetch_unique_quote is called
UniqueStart(th) ==
    /\ unique_call.pc = "idle"
    /\ pc = "idle"
    /\ unique_call.calls < MaxUnique
    /\ unique_call' = [pc |-> "loop", theme |-> th, attempt |-> 0,
                       calls |-> unique_call.calls + 1, how |-> "none", out |-> None]
    /\ unique_log' = [NoUniqueLog EXCEPT !.start = quote_cache,
                                         !.remoteBefore = remoteTotal]
    /\ UNCHANGED <<fetch_vars, match_vars, session_vars, design_vars, quote_cache, recent_order>>

\* line 32: fetcher.fetch_random_quote(theme) is called
UniqueFetch ==
    /\ unique_call.pc = "loop"
    /\ FetchBegin(unique_call.theme)
    /\ unique_call' = [unique_call EXCEPT !.pc = "fetching"]
    /\ unique_log' = [unique_log EXCEPT !.fetches = @ + 1]
    /\ UNCHANGED <<match_vars, session_vars, design_vars, quote_cache, recent_order>>

\* UniqueLoopNext with one more iteration
UniqueLoopNextMore(i) == IF i < MAX_UNIQUE_ATTEMPTS THEN "loop" ELSE "final"

\* for attempt in range(max_attempts): where the loop goes after iteration i
UniqueLoopNext(i) == IF i + 1 < MAX_UNIQUE_ATTEMPTS THEN "loop" ELSE "final"

\* lines 34-55: the fetch has ended; its result is skipped or returned
UniqueCheck ==
    /\ unique_call.pc = "fetching"
    /\ pc = "idle"
    /\ LET quote_data == result.quote
           quote_hash == get_quote_hash(quote_data.content)
       IN  IF result.kind = "raise" \/ quote_data = None
           THEN /\ unique_call' = [unique_call EXCEPT
                                      !.pc = UniqueLoopNext(unique_call.attempt),
                                      !.attempt = @ + 1]
                /\ unique_log' = [unique_log EXCEPT !.last = None]
                /\ UNCHANGED <<quote_cache, recent_order>>
           ELSE IF ~AlreadySeen(quote_hash, quote_cache)
           THEN /\ quote_cache' \in AddRecent(quote_cache, quote_hash)
                /\ recent_order' = Append(recent_order, quote_hash)
                /\ unique_call' = [unique_call EXCEPT
                                      !.pc = "idle", !.how = "new", !.out = quote_data]
                /\ unique_log' = [unique_log EXCEPT !.last = quote_data]
           ELSE /\ unique_call' = [unique_call EXCEPT
                                      !.pc = UniqueLoopNext(unique_call.attempt),
                                      !.attempt = @ + 1]
                /\ unique_log' = [unique_log EXCEPT
                                     !.last = quote_data,
                                     !.unseenSkipped = @ \/ quote_hash \notin quote_cache]
                /\ UNCHANGED <<quote_cache, recent_order>>
    /\ UNCHANGED <<fetch_vars, match_vars, session_vars, design_vars>>

\* lines 59-62: the recent-set is cleared and one more fetch is made
UniqueFinal ==
    /\ unique_call.pc = "final"
    /\ quote_cache' = {}
    /\ recent_order' = << >>
    /\ FetchBegin(unique_call.theme)
    /\ unique_call' = [unique_call EXCEPT !.pc = "final_fetching"]
    /\ unique_log' = [unique_log EXCEPT !.fetches = @ + 1, !.cleared = TRUE]
    /\ UNCHANGED <<match_vars, session_vars, design_vars>>

\* lines 62-65: the last fetch has ended; its result is returned, None if it raised
UniqueReturn ==
    /\ unique_call.pc = "final_fetching"
    /\ pc = "idle"
    /\ LET quote_data == IF result.kind = "raise" THEN None ELSE result.quote
       IN  /\ unique_call' = [unique_call EXCEPT
                                 !.pc = "idle", !.how = "any", !.out = quote_data]
           /\ unique_log' = [unique_log EXCEPT !.last = quote_data]
    /\ UNCHANGED <<fetch_vars, match_vars, session_vars, design_vars, quote_cache, recent_order>>

NextUnique ==
    \/ \E th \in UNIQUE_THEMES : UniqueStart(th)
    \/ UniqueFetch
    \/ WaitForRateLimit
    \/ \E reply \in REPLIES :
          \E q \in (IF reply = "ok" THEN REMOTE_TEXTS ELSE {""}) : Attempt(reply, q)
    \/ Sleep
    \/ Fallback
    \/ UniqueCheck
    \/ UniqueFinal
    \/ UniqueReturn

SpecUnique == InitUnique /\ [][NextUnique]_vars

(***************************************************************************)
(* fetch_random_quote for a keyword theme on a fetcher whose cache file is *)
(* 300 seconds old, the remote sending a text the cache does not hold.     *)
(***************************************************************************)
\* what the remote sends: a text no cache file holds, and one of the theme
STALE_REMOTE_TEXTS == {"Be careful", MOTIVATION_TEXT}

STALE_THEMES == {"motivation", "amour"}

InitStale ==
    /\ QuoteFetcherInit
    /\ file.state = "ok"
    /\ ~CacheFresh(Epoch, file.timestamp)
    /\ fs \in {"writable", "unwritable"}
    /\ ToolsIdle

NextStale ==
    \/ \E th \in STALE_THEMES : FetchStart(th)
    \/ WaitForRateLimit
    \/ \E reply \in REPLIES :
          \E q \in (IF reply = "ok" THEN STALE_REMOTE_TEXTS ELSE {""}) : Attempt(reply, q)
    \/ Sleep
    \/ Fallback

SpecStale == InitStale /\ [][NextStale]_vars

(***************************************************************************)
(* get_intelligent_palette on one ColorPalette instance.                   *)
(***************************************************************************)
\* the emotions asked for: a recognised one, the same in upper case, and one
\* that is no value of Emotion
PALETTE_EMOTIONS == {JOY, <<"J","O","Y">>, <<"j","o","y","_","n","i","g","h","t">>}

\* the periods asked for: none, night, and one that is no value of TimeOfDay
PALETTE_PERIODS == {NoString, Str(NIGHT), Str(<<"n","i","g","h","t","_","N","o","n","e">>)}

InitPalette ==
    /\ FetcherIdle
    /\ MatchIdle
    /\ SessionIdle
    /\ UniqueIdle
    /\ PaletteIdle
    /\ ColorIdle
    /\ LayoutIdle

\* f extended or overwritten at key k
Store(f, k, v) == [x \in DOMAIN f \cup {k} |-> IF x = k THEN v ELSE f[x]]

GetIntelligentPalette(emotion, time_period, prefer_dark) ==
    LET cache_key == CacheKey(emotion, time_period, prefer_dark)
        triple == <<emotion, time_period, prefer_dark>>
        asked == [emotion |-> emotion, time_period |-> time_period,
                  prefer_dark |-> prefer_dark, done |-> TRUE,
                  hit |-> cache_key \in DOMAIN _cache,
                  repeat |-> triple \in DOMAIN palette_first, out |-> << >>]
    IN  /\ cache_key \in DOMAIN _cache \/ Cardinality(DOMAIN _cache) < MaxMemo
        /\ IF cache_key \in DOMAIN _cache
           THEN /\ palette_call' = [asked EXCEPT !.out = _cache[cache_key]]
                /\ palette_first' = IF triple \in DOMAIN palette_first
                                    THEN palette_first
                                    ELSE Store(palette_first, triple, _cache[cache_key])
                /\ UNCHANGED _cache
           ELSE \E scheme \in SchemePool(emotion, time_period, prefer_dark) :
                   LET palette == to_list(scheme)
                   IN  /\ _cache' = Store(_cache, cache_key, palette)
                       /\ palette_call' = [asked EXCEPT !.out = palette]
                       /\ palette_first' = IF triple \in DOMAIN palette_first
                                           THEN palette_first
                                           ELSE Store(palette_first, triple, palette)
        /\ UNCHANGED <<fetch_vars, match_vars, session_vars, unique_vars, color_vars, layout_vars>>

NextPalette ==
    \E emotion \in PALETTE_EMOTIONS, time_period \in PALETTE_PERIODS,
       prefer_dark \in BOOLEAN :
        GetIntelligentPalette(emotion, time_period, prefer_dark)

SpecPalette == InitPalette /\ [][NextPalette]_vars

(***************************************************************************)
(* ensure_contrast and the round trip hex -> rgb -> hex, on any color.     *)
(***************************************************************************)
\* the hexadecimal digits the colors are written with, in both cases
COLOR_DIGITS == {"0", "8", "f", "D"}

\* the colors '#RRGGBB' over these digits; '#808080' has brightness 128
COLORS ==
    {<<"#", d[1], d[2], d[3], d[4], d[5], d[6]>> :
        d \in [1..6 -> COLOR_DIGITS]}

InitColor ==
    /\ FetcherIdle
    /\ MatchIdle
    /\ SessionIdle
    /\ UniqueIdle
    /\ PaletteIdle
    /\ LayoutIdle
    /\ color_call \in {[NoColorCall EXCEPT !.color = c] : c \in COLORS}

EnsureContrast(text_color) ==
    /\ color_call.op = "none"
    /\ color_call' = [color_call EXCEPT
                         !.op = "ensure_contrast",
                         !.text = text_color,
                         !.out = ensure_contrast(color_call.color, text_color)]
    /\ UNCHANGED <<fetch_vars, match_vars, session_vars, unique_vars, palette_vars, layout_vars>>

RoundTrip ==
    /\ color_call.op = "none"
    /\ color_call' = [color_call EXCEPT
                         !.op = "round_trip",
                         !.out = rgb_to_hex(hex_to_rgb(color_call.color))]
    /\ UNCHANGED <<fetch_vars, match_vars, session_vars, unique_vars, palette_vars, layout_vars>>

NextColor ==
    \/ \E text_color \in {NEAR_BLACK, NEAR_WHITE} : EnsureContrast(text_color)
    \/ RoundTrip

SpecColor == InitColor /\ [][NextColor]_vars

(***************************************************************************)
(* create_image choosing the font size: _calculate_font_size(len(text)).   *)
(***************************************************************************)
InitFont ==
    /\ FetcherIdle
    /\ MatchIdle
    /\ SessionIdle
    /\ UniqueIdle
    /\ PaletteIdle
    /\ ColorIdle
    /\ wrap_call = NoWrapCall
    /\ font_call \in {[NoFontCall EXCEPT !.text_length = n, !.style = st] :
                         n \in 0..MaxTextLength, st \in STYLES}

\* line 400: font_size = self._calculate_font_size(len(quote_text))
CalculateFontSize ==
    /\ ~font_call.done
    /\ font_call' = [font_call EXCEPT
                        !.done = TRUE,
                        !.font_size = _calculate_font_size(font_call.text_length)]
    /\ UNCHANGED <<fetch_vars, match_vars, session_vars, unique_vars, palette_vars, color_vars,
                   wrap_call>>

NextFont == CalculateFontSize

SpecFont == InitFont /\ [][NextFont]_vars

(***************************************************************************)
(* _wrap_text on any text, and again on its own result.                    *)
(***************************************************************************)
\* the characters of the texts: a narrow one, one three times as wide, the space
WRAP_CHARS == {"i", "M", " "}

\* the texts of at most MaxWrapChars characters
WRAP_TEXTS == UNION {[1..n -> WRAP_CHARS] : n \in 0..MaxWrapChars}

\* the fonts and the widths available
WRAP_FONTS == {1, 2}
WRAP_WIDTHS == {2, 4, 7}

InitWrap ==
    /\ FetcherIdle
    /\ MatchIdle
    /\ SessionIdle
    /\ UniqueIdle
    /\ PaletteIdle
    /\ ColorIdle
    /\ font_call = NoFontCall
    /\ wrap_call \in {[NoWrapCall EXCEPT !.text = t, !.font = f, !.max_width = w] :
                         t \in WRAP_TEXTS, f \in WRAP_FONTS, w \in WRAP_WIDTHS}

\* line 405: quote_lines = self._wrap_text(quote_text, quote_font, available_width)
WrapText ==
    /\ ~wrap_call.done
    /\ wrap_call' = [wrap_call EXCEPT
                        !.done = TRUE,
                        !.lines = _wrap_text(wrap_call.text, wrap_call.font,
                                             wrap_call.max_width)]
    /\ UNCHANGED <<fetch_vars, match_vars, session_vars, unique_vars, palette_vars, color_vars,
                   font_call>>

\* the lines are joined into one text, which is wrapped with the same font and width
Rewrap ==
    /\ wrap_call.done
    /\ ~wrap_call.rewrapped
    /\ wrap_call' = [wrap_call EXCEPT
                        !.rewrapped = TRUE,
                        !.again = _wrap_text(Join(wrap_call.lines), wrap_call.font,
                                             wrap_call.max_width)]
    /\ UNCHANGED <<fetch_vars, match_vars, session_vars, unique_vars, palette_vars, color_vars,
                   font_call>>

NextWrap == WrapText \/ Rewrap

SpecWrap == InitWrap /\ [][NextWrap]_vars

(***************************************************************************)
(* FavoritesManager (app/features/favorites.py) on the favorites of one    *)
(* session.  Of a favorite the id and the content are kept; its author,    *)
(* emotion, theme, timestamp and tags are stored with it and read by       *)
(* neither add_favorite nor remove_favorite.                               *)
(***************************************************************************)
\* is_favorite
is_favorite(favs, content) == \E i \in DOMAIN favs : favs[i].content = content

\* lines 62-70: the favorite add_favorite builds
Favorite(favs, content) == [id |-> Len(favs) + 1, content |-> content]

\* lines 88-91: the favorites whose id is not favorite_id
WithoutId(favs, favorite_id) ==
    LET keep(f) == f.id # favorite_id IN SelectSeq(favs, keep)

\* _save_favorites: the file after the call (a failed write is swallowed)
_save_favorites(mode, f, favs) ==
    IF mode = "writable" THEN [state |-> "ok", favorites |-> favs] ELSE f

FAVORITE_TEXTS == {MOTIVATION_TEXT, PLAIN_TEXT, WISDOM_TEXT}

\* FavoritesManager() where there is no file of favorites
InitFavorites ==
    /\ QuoteFetcherInit
    /\ file = File("missing", << >>, 0)
    /\ fs \in {"writable", "unwritable"}
    /\ LOCAL_OK
    /\ ToolsIdle

add_favorite(content) ==
    /\ Len(favorites) < MaxFavorites
    /\ IF is_favorite(favorites, content)
       THEN /\ fav_call' = [NoFavCall EXCEPT !.op = "add", !.content = content]
            /\ UNCHANGED <<favorites, favorites_file>>
       ELSE /\ favorites' = Append(favorites, Favorite(favorites, content))
            /\ favorites_file' = _save_favorites(fs, favorites_file, favorites')
            /\ fav_call' = [NoFavCall EXCEPT !.op = "add", !.content = content,
                                             !.id = Len(favorites) + 1, !.out = TRUE]
    /\ UNCHANGED <<fetch_vars, match_vars, unique_vars, design_vars, threads,
                   process_call>>

remove_favorite(favorite_id) ==
    /\ favorites' = WithoutId(favorites, favorite_id)
    /\ favorites_file' = IF Len(favorites') < Len(favorites)
                         THEN _save_favorites(fs, favorites_file, favorites')
                         ELSE favorites_file
    /\ fav_call' = [NoFavCall EXCEPT !.op = "remove", !.id = favorite_id,
                                     !.out = Len(favorites') < Len(favorites),
                                     !.removed = Len(favorites) - Len(favorites')]
    /\ UNCHANGED <<fetch_vars, match_vars, unique_vars, design_vars, threads,
                   process_call>>

NextFavorites ==
    \/ \E content \in FAVORITE_TEXTS : add_favorite(content)
    \/ \E favorite_id \in 1..MaxFavorites : remove_favorite(favorite_id)

SpecFavorites == InitFavorites /\ [][NextFavorites]_vars

(***************************************************************************)
(* Two sessions call fetch_random_quote on the one QuoteFetcher that       *)
(* init_modules caches for all of them (st.cache_resource): the calls run  *)
(* in two threads and a thread may be preempted between any two accesses   *)
(* to self.cache and self.last_request_time.  Each thread keeps its own    *)
(* position and local variables; the records of the calls made one at a    *)
(* time (call, history) are not kept here.                                 *)
(***************************************************************************)
\* what a step of a thread leaves alone besides the fetcher
thread_frame == <<call, history, match_vars, unique_vars, design_vars, favorites_vars,
                  process_call>>

\* both sessions ask for any theme; the remote fails or sends one text
OVERLAP_THEMES == {"auto"}
OVERLAP_REPLIES == {"ok", "network_error"}
OVERLAP_TEXTS == {PLAIN_TEXT}

\* a fetcher just shared, over a stale cache file of 49 or 50 records
InitOverlap ==
    /\ QuoteFetcherInit
    /\ file.state = "ok"
    /\ file.quotes \in LARGE_CACHES
    /\ ~CacheFresh(Epoch, file.timestamp)
    /\ fs = "writable"
    /\ ToolsIdle

\* thread t goes on as r
Becomes(t, r) == threads' = [threads EXCEPT ![t] = r]

\* lines 130-132 reached by thread t: sleep, or leave the loop
AfterAttempt(t) ==
    IF SleepsAfter(threads[t].attempt)
    THEN [threads[t] EXCEPT !.pc = "sleep", !.wake = now + RETRY_SLEEP]
    ELSE [threads[t] EXCEPT !.pc = LoopNext(threads[t].attempt), !.attempt = @ + 1]

\* lines 95-102: the call starts and looks at the cache
ThreadCall(t, th) ==
    /\ threads[t].pc = "idle"
    /\ IF CacheFresh(now, timestamp) /\ _get_from_cache(quotes, th) # {}
       THEN \E cached \in _get_from_cache(quotes, th) :
               Becomes(t, [threads[t] EXCEPT !.pc = "done", !.theme = th,
                                             !.out = Returned(cached, 102)])
       ELSE Becomes(t, [threads[t] EXCEPT !.pc = "rate_read", !.theme = th])
    /\ UNCHANGED <<now, fetcher, env, thread_frame>>

\* lines 64-66: last_request_time is read and the wait is computed
ThreadRateRead(t) ==
    /\ threads[t].pc = "rate_read"
    /\ LET wait_time == RateLimitWait(now, last_request_time)
       IN  Becomes(t, [threads[t] EXCEPT
                          !.read = last_request_time,
                          !.wake = now + wait_time,
                          !.pc = IF wait_time > 0 THEN "rate_sleep" ELSE "rate_stamp"])
    /\ UNCHANGED <<now, fetcher, env, thread_frame>>

\* line 68: time.sleep(wait_time) has ended
ThreadRateSleep(t) ==
    /\ threads[t].pc = "rate_sleep"
    /\ now >= threads[t].wake
    /\ Becomes(t, [threads[t] EXCEPT !.pc = "rate_stamp"])
    /\ UNCHANGED <<now, fetcher, env, thread_frame>>

\* line 69: self.last_request_time = time.time()
ThreadRateStamp(t) ==
    /\ threads[t].pc = "rate_stamp"
    /\ last_request_time' = now
    /\ Becomes(t, [threads[t] EXCEPT !.pc = "attempt"])
    /\ UNCHANGED <<now, cacheIsDict, quotes, timestamp, env, thread_frame>>

\* line 108: one remote call
ThreadAttempt(t, reply, q) ==
    /\ threads[t].pc = "attempt"
    /\ LET quote == _fetch_single_quote(reply, q)
           issued == [threads[t] EXCEPT
                         !.issuedAt = IF @ = -1 THEN now ELSE @, !.quote = quote]
       IN  IF quote = None
           THEN Becomes(t, [AfterAttempt(t) EXCEPT !.issuedAt = issued.issuedAt])
           ELSE Becomes(t, [issued EXCEPT !.pc = "check_len"])
    /\ UNCHANGED <<now, fetcher, env, thread_frame>>

\* line 116: if len(self.cache['quotes']) >= 50
ThreadCheckLen(t) ==
    /\ threads[t].pc = "check_len"
    /\ Becomes(t, [threads[t] EXCEPT
                      !.pc = IF Len(quotes) >= MAX_CACHED THEN "pop" ELSE "append"])
    /\ UNCHANGED <<now, fetcher, env, thread_frame>>

\* line 117: self.cache['quotes'].pop(0)
ThreadPop(t) ==
    /\ threads[t].pc = "pop"
    /\ IF quotes = << >>
       THEN /\ Becomes(t, [threads[t] EXCEPT !.pc = "done", !.out = Raised(117)])
            /\ UNCHANGED quotes
       ELSE /\ quotes' = Tail(quotes)
            /\ Becomes(t, [threads[t] EXCEPT !.pc = "append"])
    /\ UNCHANGED <<now, cacheIsDict, timestamp, last_request_time, env, thread_frame>>

\* line 119: self.cache['quotes'].append(quote)
ThreadAppend(t) ==
    /\ threads[t].pc = "append"
    /\ quotes' = Append(quotes, threads[t].quote)
    /\ Becomes(t, [threads[t] EXCEPT !.pc = "stamp"])
    /\ UNCHANGED <<now, cacheIsDict, timestamp, last_request_time, env, thread_frame>>

\* line 120: self.cache['timestamp'] = time.time()
ThreadStamp(t) ==
    /\ threads[t].pc = "stamp"
    /\ timestamp' = now
    /\ Becomes(t, [threads[t] EXCEPT !.pc = "save"])
    /\ UNCHANGED <<now, cacheIsDict, quotes, last_request_time, env, thread_frame>>

\* lines 121-128: the cache is saved as it is now; the record is returned if
\* it satisfies the theme
ThreadSave(t) ==
    /\ threads[t].pc = "save"
    /\ IF SaveRaises(fs)
       THEN /\ Becomes(t, [threads[t] EXCEPT !.pc = "done", !.out = Raised(55)])
            /\ UNCHANGED file
       ELSE /\ file' = _save_cache(fs, file, quotes, timestamp)
            /\ IF ThemeSatisfied(threads[t].quote, threads[t].theme)
               THEN Becomes(t, [threads[t] EXCEPT
                                   !.pc = "done",
                                   !.out = Returned(threads[t].quote,
                                                    IF threads[t].theme = "auto"
                                                    THEN 128 ELSE 126)])
               ELSE Becomes(t, AfterAttempt(t))
    /\ UNCHANGED <<now, fetcher, fs, LOCAL_OK, thread_frame>>

\* line 132: time.sleep(1) has ended
ThreadSleep(t) ==
    /\ threads[t].pc = "sleep"
    /\ now >= threads[t].wake
    /\ Becomes(t, [threads[t] EXCEPT !.pc = LoopNext(threads[t].attempt),
                                     !.attempt = @ + 1])
    /\ UNCHANGED <<now, fetcher, env, thread_frame>>

\* lines 134-145: the cache whatever its age, then the local pool, then the fallback
ThreadFallback(t) ==
    /\ threads[t].pc = "fallback"
    /\ \E r \in (IF _get_from_cache(quotes, threads[t].theme) # {}
                 THEN {Returned(cached, 138) :
                          cached \in _get_from_cache(quotes, threads[t].theme)}
                 ELSE IF LOCAL_OK
                 THEN {Returned(local, 143) : local \in get_random_quote(threads[t].theme)}
                 ELSE {Returned(_get_fallback_quote, 145)}) :
          Becomes(t, [threads[t] EXCEPT !.pc = "done", !.out = r])
    /\ UNCHANGED <<now, fetcher, env, thread_frame>>

\* a second passes while a thread sleeps
Tick ==
    /\ \E t \in THREADS : threads[t].pc \in {"rate_sleep", "sleep"} /\ threads[t].wake > now
    /\ now' = now + 1
    /\ UNCHANGED <<fetcher, env, threads, thread_frame>>

NextOverlap ==
    \/ \E t \in THREADS, th \in OVERLAP_THEMES : ThreadCall(t, th)
    \/ \E t \in THREADS : ThreadRateRead(t)
    \/ \E t \in THREADS : ThreadRateSleep(t)
    \/ \E t \in THREADS : ThreadRateStamp(t)
    \/ \E t \in THREADS, reply \in OVERLAP_REPLIES :
          \E q \in (IF reply = "ok" THEN OVERLAP_TEXTS ELSE {""}) : ThreadAttempt(t, reply, q)
    \/ \E t \in THREADS : ThreadCheckLen(t)
    \/ \E t \in THREADS : ThreadPop(t)
    \/ \E t \in THREADS : ThreadAppend(t)
    \/ \E t \in THREADS : ThreadStamp(t)
    \/ \E t \in THREADS : ThreadSave(t)
    \/ \E t \in THREADS : ThreadSleep(t)
    \/ \E t \in THREADS : ThreadFallback(t)
    \/ Tick

SpecOverlap == InitOverlap /\ [][NextOverlap]_vars

(***************************************************************************)
(* process_quote_generation (app/utils/quote_processor.py) over            *)
(* fetch_unique_quote and the fetcher.  The dict it receives is the one    *)
(* fetch_random_quote returned: the dict just appended to                  *)
(* self.cache['quotes'] (lines 126, 128) or the element of it that         *)
(* random.choice picked (lines 102, 138), not a copy, so an assignment to  *)
(* quote_data[...] is an assignment to that element of the cache.  Of the  *)
(* keys it assigns the model keeps 'content' and 'theme'; 'original',      *)
(* 'author', 'emotion', 'timestamp' and 'date' are assigned the same way.  *)
(***************************************************************************)
\* Translator._is_french: the words it looks for
FRENCH_WORDS ==
    << <<"l","e">>, <<"l","a">>, <<"l","e","s">>, <<"d","e">>, <<"d","e","s">>,
       <<"u","n">>, <<"u","n","e">>, <<"e","t">>, <<"e","s","t">>,
       <<"d","a","n","s">>, <<"q","u","e">>, <<"p","o","u","r">>, <<"p","a","s">> >>

\* Translator._is_french
_is_french(text) ==
    LET text_lower == <<" ">> \o Lower(CHARS[text]) \o <<" ">>
        french_count ==
            Cardinality({k \in 1..Len(FRENCH_WORDS) :
                            Contains(text_lower, <<" ">> \o FRENCH_WORDS[k] \o <<" ">>)})
    IN  french_count >= 2

\* Translator.translate; reply is what the translation service did
translate(text, reply) ==
    IF _is_french(text) THEN text
    ELSE IF reply \in {"error", ""} THEN text
    ELSE reply

LANGUAGES == {"Français", "English"}
TRANSLATOR_REPLIES == {"error"} \cup TRANSLATED_TEXTS

\* lines 37-47: the content of quote_data after the translation
TranslatedContent(original_content, language, reply) ==
    IF language = "Français" /\ original_content # ""
    THEN LET translated == translate(original_content, reply)
         IN  IF translated # "" /\ Len(CHARS[translated]) > 10
             THEN translated ELSE original_content
    ELSE original_content

\* quote_data when process_quote_generation ends (lines 44, 92)
Processed(quote_data, th, language, reply) ==
    [quote_data EXCEPT !.content = TranslatedContent(@, language, reply),
                       !.theme = th]

\* the elements of self.cache['quotes'] that the dict returned at line `line`
\* of fetch_random_quote can be
CacheAliases(qs, r) ==
    IF r.kind # "return" THEN {}
    ELSE IF r.line \in {126, 128} THEN {Len(qs)}
    ELSE IF r.line \in {102, 138} THEN {i \in 1..Len(qs) : qs[i] = r.quote}
    ELSE {}

PROCESS_THEMES == {"auto", "motivation"}

InitProcess ==
    /\ QuoteFetcherInit
    /\ file.state = "ok"
    /\ file.quotes = StoredQuotes(2, MOTIVATION_TEXT, PLAIN_TEXT)
    /\ fs = "writable"
    /\ ToolsIdle

\* line 31: process_quote_generation is called and calls fetch_unique_quote
ProcessStart(th) ==
    /\ process_call.of = unique_call.calls
    /\ UniqueStart(th)

\* lines 33-102: fetch_unique_quote has returned quote_data
ProcessQuote(language, reply) ==
    /\ unique_call.pc = "idle"
    /\ pc = "idle"
    /\ process_call.of < unique_call.calls
    /\ LET quote_data == unique_call.out
           after == Processed(quote_data, unique_call.theme, language, reply)
       IN  IF quote_data = None
           THEN /\ process_call' = [of |-> unique_call.calls, language |-> language,
                                    out |-> FALSE, quote |-> None]
                /\ UNCHANGED quotes
           ELSE /\ process_call' = [of |-> unique_call.calls, language |-> language,
                                    out |-> TRUE, quote |-> after]
                /\ IF CacheAliases(quotes, result) = {}
                   THEN UNCHANGED quotes
                   ELSE \E i \in CacheAliases(quotes, result) :
                            quotes' = [quotes EXCEPT ![i] = after]
    /\ UNCHANGED <<now, cacheIsDict, timestamp, last_request_time, env, call, history,
                   match_vars, unique_vars, design_vars, favorites_vars, threads>>

\* time passes between two calls of process_quote_generation
ProcessElapse(d) ==
    /\ unique_call.pc = "idle"
    /\ process_call.of = unique_call.calls
    /\ Elapse(d)

NextProcess ==
    \/ \E th \in PROCESS_THEMES : ProcessStart(th)
    \/ UniqueFetch
    \/ WaitForRateLimit
    \/ \E reply \in REPLIES :
          \E q \in (IF reply = "ok" THEN REMOTE_TEXTS ELSE {""}) : Attempt(reply, q)
    \/ Sleep
    \/ Fallback
    \/ UniqueCheck
    \/ UniqueFinal
    \/ UniqueReturn
    \/ \E language \in LANGUAGES, reply \in TRANSLATOR_REPLIES :
          ProcessQuote(language, reply)
    \/ \E d \in DELAYS : ProcessElapse(d)

SpecProcess == InitProcess /\ [][NextProcess]_vars

(***************************************************************************)
(* Properties.                                                             *)
(***************************************************************************)
\* the latest call has ended
Done == pc = "idle" /\ result.kind # "none"

\* the last n elements of s
LastN(s, n) == SubSeq(s, Len(s) - n + 1, Len(s))

Min(a, b) == IF a < b THEN a ELSE b

\* a record fetched by the current call satisfies its theme
Satisfies(quote) == theme = "auto" \/ Matches(quote, theme)

NoneSatisfied == \A i \in DOMAIN fetched : ~Satisfies(fetched[i].quote)

\* the pool entries whose tags or theme label equal the theme of the call
Themed == {i \in 1..Len(FRENCH_QUOTES) : \/ theme \in FRENCH_QUOTES[i].tags
                                         \/ FRENCH_QUOTES[i].theme = theme}

\* C1: the cache never holds more than 50 records, and it holds the most
\* recently inserted ones in insertion order: the oldest record is the one
\* that leaves when a record arrives at a full cache.
C1_CacheIsFifoWindow ==
    /\ Len(quotes) <= 50
    /\ quotes = LastN(inserted, Min(50, Len(inserted)))

\* C1 witness: after the 51st insertion 50 records remain and the first
\* inserted one is gone.
C1_Witness ==
    /\ Len(inserted) = 51
    /\ Len(quotes) = 50
    /\ inserted[1] \notin Range(quotes)

\* C2: the first remote call of a fetch is issued at least 2 seconds after
\* the most recent remote call of the fetch before it.
C2_CallsAreSpaced == firstGap = -1 \/ firstGap >= 2

\* C3: a call that finds the cache younger than 300 seconds and non-empty
\* returns a cached record at once, without the rate-limit wait and without
\* a remote call; the record matches the theme when the theme is not auto
\* and some cached record matches it.
C3_FreshCacheServes ==
    (entryAge < 300 /\ entryLen > 0) =>
        /\ Done
        /\ result.kind = "return"
        /\ rateWaits = 0
        /\ remoteCalls = 0
        /\ result.quote \in Range(quotes)
        /\ (theme # "auto" /\ \E q \in Range(quotes) : Matches(q, theme))
               => Matches(result.quote, theme)

\* C3 witness: a fresh cache with a matching and a non-matching record has
\* served the theme motivation.
C3_Witness ==
    /\ Done /\ result.line = 102 /\ theme = "motivation"
    /\ entryAge < 300
    /\ \E q \in Range(quotes) : ~Matches(q, theme)
    /\ Matches(result.quote, theme)

\* C4: a call issues at most 3 remote calls, sleeps exactly 1 second between
\* two consecutive ones and never after the third.
C4_RetrySleeps ==
    /\ remoteCalls <= 3
    /\ Len(sleepLog) = IF pc = "attempt" THEN remoteCalls
                       ELSE IF remoteCalls = 0 THEN 0 ELSE remoteCalls - 1
    /\ \A i \in DOMAIN sleepLog :
          /\ sleepLog[i].after = i
          /\ sleepLog[i].secs = 1
          /\ i < 3

\* C4 witness: a call has ended after three attempts, one of which failed
\* and one of which brought a record of another theme, and two sleeps.
C4_Witness ==
    /\ Done /\ remoteCalls = 3 /\ Len(sleepLog) = 2
    /\ Len(fetched) \in {1, 2}
    /\ NoneSatisfied

C6_MatchingRecordReturned ==
    \A i \in DOMAIN fetched :
        Satisfies(fetched[i].quote) =>
            /\ Done
            /\ result.kind = "return"
            /\ result.quote = fetched[i].quote
            /\ remoteCalls = fetched[i].n

\* C7: a call none of whose remote attempts satisfied the theme, with a
\* non-empty cache, returns a cached record, a matching one when there is one.
C7_CacheFallback ==
    (Done /\ remoteCalls > 0 /\ NoneSatisfied /\ quotes # << >>) =>
        /\ result.kind = "return"
        /\ result.quote \in Range(quotes)
        /\ (\E q \in Range(quotes) : Matches(q, theme)) => Matches(result.quote, theme)

\* C8 (as stated, of the calls that return): a call none of whose remote
\* attempts satisfied the theme, with no cached record matching the theme,
\* returns an entry of the local pool, one of the theme when the pool has
\* such entries.
C8_LocalWhenNoCachedMatch ==
    (Done /\ result.kind = "return" /\ remoteCalls > 0 /\ NoneSatisfied
          /\ \A q \in Range(quotes) : ~Matches(q, theme)) =>
        /\ result.kind = "return"
        /\ \E i \in 1..Len(FRENCH_QUOTES) : result.quote.content = FRENCH_QUOTES[i].content
        /\ Themed # {} =>
              \E i \in Themed : result.quote.content = FRENCH_QUOTES[i].content

\* C8 (amended): a call whose remote attempts all failed, with an empty
\* cache and the local pool imported, returns an entry of the local pool,
\* one of the theme when the pool has such entries.
C8_LocalWhenCacheEmpty ==
    (Done /\ remoteCalls = 3 /\ fetched = << >> /\ cacheIsDict /\ quotes = << >>
          /\ LOCAL_OK) =>
        /\ result.kind = "return"
        /\ \E i \in 1..Len(FRENCH_QUOTES) : result.quote.content = FRENCH_QUOTES[i].content
        /\ Themed # {} =>
              \E i \in Themed : result.quote.content = FRENCH_QUOTES[i].content

\* C8 witness: after three failed attempts and with an empty cache the pool
\* has served the theme motivation.
C8_Witness ==
    /\ Done /\ result.line = 143 /\ remoteCalls = 3 /\ quotes = << >>
    /\ theme = "motivation"
    /\ "motivation" \in result.quote.tags

\* C9 (as stated): when the three remote attempts of a call for sagesse fail
\* and the pool is there, the call returns a pool entry tagged sagesse with
\* source local, whatever the cache holds.
C9_SagesseFromPool ==
    (Done /\ theme = "sagesse" /\ remoteCalls = 3 /\ fetched = << >> /\ LOCAL_OK) =>
        /\ result.kind = "return"
        /\ result.quote.source = "local"
        /\ "sagesse" \in result.quote.tags

\* C9 (amended): the same, when the cache is empty.
C9_SagesseFromPoolWhenCacheEmpty ==
    (Done /\ theme = "sagesse" /\ remoteCalls = 3 /\ fetched = << >> /\ LOCAL_OK
          /\ quotes = << >>) =>
        /\ result.kind = "return"
        /\ result.quote.source = "local"
        /\ "sagesse" \in result.quote.tags

\* C9 witness: three failed attempts, an empty cache, a sagesse entry of the
\* pool returned.
C9_Witness ==
    /\ Done /\ theme = "sagesse" /\ remoteCalls = 3 /\ fetched = << >> /\ quotes = << >>
    /\ result.line = 143
    /\ result.quote.source = "local"
    /\ result.quote.theme = "sagesse"

\* C10: a call never raises and always returns a record; with the remote
\* failing, an empty cache and no local pool it returns the fallback record.
C10_NeverRaises ==
    Done =>
        /\ result.kind = "return"
        /\ result.quote # None
        /\ (remoteCalls = 3 /\ fetched = << >> /\ quotes = << >> /\ ~LOCAL_OK) =>
              result.quote.id.tag = "fallback" /\ result.quote.source = "fallback"

\* C11: disk failures never surface: a cache file that is missing, unreadable
\* or malformed gives the empty cache {quotes: [], timestamp: 0}, no call
\* raises because of the disk, and a _save_cache that cannot persist is
\* swallowed, the record staying in the in-memory cache.
C11_DiskFailuresSwallowed ==
    /\ cacheIsDict
    /\ (file.state # "ok" /\ inserted = << >>) => (quotes = << >> /\ timestamp = 0)
    /\ result.kind # "raise"
    /\ lastSave # "raised"
    /\ lastSave = "failed" =>
          /\ fetched # << >>
          /\ quotes[Len(quotes)] = fetched[Len(fetched)].quote

\* keyword k occurs in text s when upper and lower case are not told apart
ContainsIgnoringCase(s, k) ==
    \E i \in 0..(Len(s) - Len(k)) :
        \A j \in 1..Len(k) : LowerChar(s[i + j]) = LowerChar(k[j])

\* the themes that have a keyword list in the table
KeywordThemes == {"motivation", "sagesse", "amour", "courage", "succes", "bonheur",
                  "inspiration"}

\* C12: _matches_theme is true exactly when the theme is auto, or the theme
\* has no keyword list, or the content contains one of the theme's keywords
\* as a case-insensitive substring.
C12_MatchesTheme ==
    match_call.done =>
        match_call.out =
            (\/ match_call.theme = "auto"
             \/ match_call.theme \notin KeywordThemes
             \/ \E k \in Range(THEME_KEYWORDS[match_call.theme]) :
                   ContainsIgnoringCase(CHARS[match_call.content], k))

\* C12 witness: a content with the keyword truth in upper case matched
\* sagesse, and a content with no keyword of amour did not match amour.
C12_Witness ==
    /\ match_call.done
    /\ \/ /\ match_call.content = WISDOM_TEXT
          /\ match_call.theme = "sagesse"
          /\ match_call.out
       \/ /\ match_call.content = PLAIN_TEXT
          /\ match_call.theme = "amour"
          /\ ~match_call.out

Palettes(pool) == {<<x.background, x.text, x.accent>> : x \in pool}

\* the emotion is one of the recognised emotions, whatever its case
Recognised(emotion) == \E v \in EMOTION_VALUES : Lower(emotion) = v

C15_MemoizedByTriple ==
    palette_call.done =>
        /\ palette_call.out =
              palette_first[<<palette_call.emotion, palette_call.time_period,
                              palette_call.prefer_dark>>]
        /\ palette_call.hit <=> palette_call.repeat

\* the value of the two hexadecimal digits of channel k (1: red, 2: green,
\* 3: blue) of a color '#RRGGBB'
Channel(c, k) ==
    LET Value(d) == CASE d \in {"0"} -> 0 [] d \in {"1"} -> 1 [] d \in {"8"} -> 8
                      [] d \in {"a", "A"} -> 10 [] d \in {"d", "D"} -> 13
                      [] d \in {"f", "F"} -> 15
    IN  16 * Value(c[2 * k]) + Value(c[2 * k + 1])

\* perceived brightness 0.299 R + 0.587 G + 0.114 B, times 1000
Perceived(c) == 299 * Channel(c, 1) + 587 * Channel(c, 2) + 114 * Channel(c, 3)

C17_HexRoundTrip ==
    color_call.op = "round_trip" => color_call.out = color_call.color

\* C18: the font size is a non-increasing step function of the number of
\* characters with four tiers: 48 below 60, 42 from 60 to 119, 36 from 120
\* to 179, 32 from 180 on, whatever the style; 200 characters get 32.
C18_FontTiers ==
    /\ font_call.done =>
          font_call.font_size =
              (CASE font_call.text_length < 60 -> 48
                 [] font_call.text_length \in 60..119 -> 42
                 [] font_call.text_length \in 120..179 -> 36
                 [] font_call.text_length >= 180 -> 32)
    /\ \A n \in 1..MaxTextLength :
          _calculate_font_size(n - 1) >= _calculate_font_size(n)
    /\ {_calculate_font_size(n) : n \in 0..MaxTextLength} = {48, 42, 36, 32}
    /\ _calculate_font_size(200) = 32

\* C18 witness: a text of 200 characters in the style minimal got size 32.
C18_Witness ==
    /\ font_call.done
    /\ font_call.text_length = 200
    /\ font_call.style = "minimal"
    /\ font_call.font_size = 32

\* the positions of text where a word starts
WordStarts(text) ==
    {i \in 1..Len(text) : text[i] # " " /\ (i = 1 \/ text[i - 1] = " ")}

\* the word of text that starts at position i
WordAt(text, i) ==
    LET last == CHOOSE j \in i..Len(text) :
                    /\ \A x \in i..j : text[x] # " "
                    /\ j = Len(text) \/ text[j + 1] = " "
    IN  SubSeq(text, i, last)

\* the words of text, in order
WordsOf(text) ==
    [k \in 1..Cardinality(WordStarts(text)) |->
        WordAt(text, CHOOSE i \in WordStarts(text) :
                         Cardinality({j \in WordStarts(text) : j < i}) = k - 1)]

\* the words of the lines, read line by line
RECURSIVE WordsOfLines(_)
WordsOfLines(lines) ==
    IF lines = << >> THEN << >>
    ELSE WordsOf(Head(lines)) \o WordsOfLines(Tail(lines))

\* C19: _wrap_text returns at least one line; the words of the lines, read
\* line by line, are the words of the text in the same order; a word wider
\* than the available width is alone on its line; a text without words
\* gives the one line equal to the text.
C19_WrapKeepsWords ==
    wrap_call.done =>
        /\ wrap_call.lines # << >>
        /\ WordsOfLines(wrap_call.lines) = WordsOf(wrap_call.text)
        /\ \A l \in DOMAIN wrap_call.lines :
              \A k \in DOMAIN WordsOf(wrap_call.lines[l]) :
                  BBoxWidth(wrap_call.font, WordsOf(wrap_call.lines[l])[k])
                        > wrap_call.max_width
                     => wrap_call.lines[l] = WordsOf(wrap_call.lines[l])[k]
        /\ WordsOf(wrap_call.text) = << >> => wrap_call.lines = <<wrap_call.text>>

\* C19 witness: a text of three words whose second word is wider than the
\* available width was wrapped into three lines, that word alone on the second.
C19_Witness ==
    /\ wrap_call.done
    /\ Len(WordsOf(wrap_call.text)) = 3
    /\ Len(wrap_call.lines) = 3
    /\ BBoxWidth(wrap_call.font, wrap_call.lines[2]) > wrap_call.max_width
    /\ BBoxWidth(wrap_call.font, wrap_call.lines[1]) <= wrap_call.max_width

\* C20: wrapping the joined lines again, with the same font and the same
\* width, gives the same lines.
C20_WrapIdempotent ==
    wrap_call.rewrapped => wrap_call.again = wrap_call.lines

\* C20 witness: a text with more spaces than its joined lines, wrapped into
\* two lines or more, one of them of two words, was wrapped again into the
\* same lines.
C20_Witness ==
    /\ wrap_call.rewrapped
    /\ Len(wrap_call.lines) >= 2
    /\ \E l \in DOMAIN wrap_call.lines : Len(WordsOf(wrap_call.lines[l])) = 2
    /\ Join(wrap_call.lines) # wrap_call.text
    /\ wrap_call.again = wrap_call.lines

\* C21: last_request_time is stamped before every remote attempt: whenever
\* the current call has issued a remote call, last_request_time is the time
\* at which its latest remote call was issued.
C21_StampedBeforeEveryAttempt ==
    remoteCalls > 0 => last_request_time = lastRemoteAt

\* C22: the recent-set is a FIFO window of capacity 30: it holds exactly the
\* hashes of the most recent min(n, 30) of the n records accepted since it
\* was last empty, so the hash that leaves when a 31st arrives is the one
\* added first and never the one just added.
C22_RecentIsFifoWindow ==
    /\ quote_cache = Range(LastN(recent_order, Min(30, Len(recent_order))))
    /\ unique_call.how = "new" => get_quote_hash(unique_call.out.content) \in quote_cache

\* steps a call of fetch_random_quote may still take
FetchRank ==
    CASE pc = "idle" -> 0
      [] pc = "fallback" -> 1
      [] pc = "attempt" -> 2 * (3 - attempt)
      [] pc = "sleep" -> 2 * (3 - attempt) - 1
      [] pc = "rate_limit" -> 7

\* steps a call of fetch_unique_quote may still take
UniqueRank ==
    CASE unique_call.pc = "idle" -> 0
      [] unique_call.pc \in {"loop", "final"} -> 10 * (11 - unique_call.attempt)
      [] unique_call.pc \in {"fetching", "final_fetching"} ->
            10 * (11 - unique_call.attempt) - 8 + FetchRank

\* C29: a call of fetch_random_quote makes at most one rate-limit wait, 3
\* remote calls and 2 sleeps; a call of fetch_unique_quote makes at most 11
\* calls of fetch_random_quote, hence at most 3 remote calls for each and 33
\* in all; and it ends: every step of it lowers a rank that is never negative.
C29_BoundedTraffic ==
    /\ [](/\ rateWaits <= 1
          /\ remoteCalls <= 3
          /\ Len(sleepLog) <= 2
          /\ unique_log.fetches <= 11
          /\ remoteTotal - unique_log.remoteBefore <= 3 * unique_log.fetches
          /\ remoteTotal - unique_log.remoteBefore <= 33
          /\ UniqueRank >= 0)
    /\ [][unique_call.pc # "idle" => UniqueRank' < UniqueRank]_vars

\* C29 witness: a first call whose fetch took three remote calls and two
\* sleeps has been followed by a call that made 11 fetches and ended.
C29_Witness ==
    /\ unique_call.pc = "idle"
    /\ unique_call.how = "any"
    /\ unique_call.calls = 2
    /\ unique_log.fetches = 11
    /\ unique_log.remoteBefore = 3
    /\ remoteTotal = 3

\* C26: word-wrap is greedy: a returned line of more than one word is no
\* wider than the available width, and every line but the last would be
\* wider than it with a space and the first word of the next line appended.
C26_WrapIsGreedy ==
    wrap_call.done =>
        \A l \in DOMAIN wrap_call.lines :
            /\ Len(WordsOf(wrap_call.lines[l])) > 1 =>
                  BBoxWidth(wrap_call.font, wrap_call.lines[l]) <= wrap_call.max_width
            /\ l < Len(wrap_call.lines) =>
                  BBoxWidth(wrap_call.font,
                            wrap_call.lines[l] \o <<" ">>
                                \o WordsOf(wrap_call.lines[l + 1])[1])
                      > wrap_call.max_width

\* C26 witness: a first line of two words fills the available width exactly
\* and another line follows it.
C26_Witness ==
    /\ wrap_call.done
    /\ Len(wrap_call.lines) >= 2
    /\ Len(WordsOf(wrap_call.lines[1])) = 2
    /\ BBoxWidth(wrap_call.font, wrap_call.lines[1]) = wrap_call.max_width

\* C27: a call served from the fresh cache is read-only on the fetcher: it
\* makes no rate-limit wait and no remote call and leaves the cached records,
\* the cache timestamp, the cache file and last_request_time as they were.
\* The timestamp changes only when a remote fetch succeeds, to the time of
\* that fetch, and the cache serves at once only while it is less than 300
\* seconds old: cache hits do not keep the cache fresh.
C27_CacheHitReadOnly ==
    /\ []((Done /\ result.line = 102) =>
             /\ entryAge < 300
             /\ rateWaits = 0
             /\ remoteCalls = 0)
    /\ [][(pc = "idle" /\ pc' = "idle" /\ result'.line = 102) =>
             UNCHANGED <<cacheIsDict, quotes, timestamp, last_request_time, file, fs>>]_vars
    /\ [][timestamp' # timestamp =>
             /\ pc = "attempt"
             /\ timestamp' = now
             /\ Len(inserted') = Len(inserted) + 1]_vars

\* C27 witness: a record was fetched from the remote, a second passed, and
\* the next call was served from the cache, whose timestamp is still the
\* time of the fetch.
C27_Witness ==
    /\ Done /\ result.line = 102
    /\ entryAge = 1
    /\ remoteTotal > 0
    /\ timestamp = lastRemoteAt
    /\ timestamp = now - 1
    /\ last_request_time <= timestamp

\* the current call is the first one made on the fetcher
FirstCall == remoteTotal = remoteCalls

\* C25: a call for a keyword theme that finds the cache stale goes to the
\* remote first; it returns a record that does not match the theme only
\* after three remote calls, from the cache fallback, and only when no
\* cached record matches the theme any more; the record returned may then
\* be one it has just fetched.
C25_StaleCacheSkipsMatch ==
    (Done /\ entryAge >= 300 /\ entryLen > 0 /\ result.kind = "return"
          /\ theme \in KeywordThemes /\ ~Matches(result.quote, theme)) =>
        /\ result.line = 138
        /\ remoteCalls = 3
        /\ \A q \in Range(quotes) : ~Matches(q, theme)
        /\ result.quote \in Range(quotes)

\* C25 witness: the cache was stale and held a record matching the theme;
\* the call has returned a record it fetched from the remote, which no
\* record of that cache equals and which does not match the theme.
C25_Witness ==
    /\ Done /\ FirstCall
    /\ entryAge >= 300
    /\ theme = "motivation"
    /\ \E i \in 1..entryLen : Matches(inserted[i], theme)
    /\ \A i \in 1..entryLen : inserted[i] # result.quote
    /\ \E i \in DOMAIN fetched : fetched[i].quote = result.quote
    /\ ~Matches(result.quote, theme)
    /\ result.kind = "return"

\* C30: after any add_favorite and remove_favorite calls on a list that
\* started empty, the stored favorites have pairwise distinct ids, and a
\* remove_favorite removes at most one favorite.
C30_DistinctIds ==
    /\ \A i, j \in DOMAIN favorites : i # j => favorites[i].id # favorites[j].id
    /\ fav_call.op = "remove" => fav_call.removed <= 1

\* C28: the cache holds at most 50 records in every reachable state, also
\* when two calls of fetch_random_quote interleave on the shared fetcher.
C28_BoundedWhenInterleaved == Len(quotes) <= 50

\* C24: the rate-limit timestamp is shared and unprotected.  What the code
\* ensures is only that a call issues its first remote call at least 2
\* seconds after the value of last_request_time it read; two overlapping
\* calls may both read it before either stamps it.
C24_WaitFromValueRead ==
    \A t \in THREADS :
        /\ threads[t].issuedAt # -1 => threads[t].issuedAt >= threads[t].read + 2
        /\ threads[t].pc \in {"rate_sleep", "rate_stamp"} =>
              threads[t].wake >= threads[t].read + 2

\* C24 witness: both calls read last_request_time as it was before either
\* stamped it, neither waited, and both issued their remote call in the same
\* second.
C24_Witness ==
    /\ \A t \in THREADS :
          /\ threads[t].read = 0
          /\ threads[t].wake <= Epoch
          /\ threads[t].issuedAt # -1
    /\ last_request_time >= Epoch
    /\ threads[1].issuedAt - threads[2].issuedAt < 2
    /\ threads[2].issuedAt - threads[1].issuedAt < 2

\* C23: a record held in the cache is the record that was inserted: the
\* cache is the tail of the sequence of the records ever inserted, also after
\* process_quote_generation has processed a returned record, and the records
\* of the cache file are records that were inserted.
C23_CachedRecordsUnchanged ==
    /\ Len(quotes) <= Len(inserted)
    /\ \A i \in 1..Len(quotes) : quotes[i] = inserted[Len(inserted) - Len(quotes) + i]
    /\ file.state = "ok" => \A i \in 1..Len(file.quotes) : file.quotes[i] \in Range(inserted)

====
